---- MODULE Spec2Model ----
(***************************************************************************)
(* Media upload service: bounded in-memory queue (VideoQueue), streaming   *)
(* upload handler (uploadVideo), consumer worker pool with retry and       *)
(* dead-letter queue, the content-hash registry (VideoRegistry), the file  *)
(* persister (FileHandler.saveVideo) and the producer thread.              *)
(*                                                                         *)
(* The server is one Node.js process: every handler runs to completion on  *)
(* the event loop, and the continuation of a resolved promise (microtask)  *)
(* runs before the next I/O callback.  Each action below is one such       *)
(* handler or continuation.                                                *)
(*                                                                         *)
(* The specifications share the definitions of the operations:             *)
(*   SpecQueue   the VideoQueue driven by arbitrary callers of its public  *)
(*               methods (enqueue, dequeue, dequeueAsync, shutdown);       *)
(*   SpecUpload  one upload call under every stream of messages;           *)
(*   SpecRace    concurrent upload calls declaring the same hash;          *)
(*   SpecWorker  the worker pool: retries, backoff, dead-lettering and     *)
(*               shutdown (FairWorker adds the scheduling guarantees);     *)
(*   SpecDlq     SpecWorker with the endpoints of the dead-letter queue;   *)
(*   SpecAdmin   uploads and workers with the file and registry endpoints; *)
(*   SpecSave    the worker pool with every save taken step by step        *)
(*               (writeFile, validateFile, rename);                        *)
(*   SpecRegistry the VideoRegistry driven by arbitrary calls of its       *)
(*               public methods, with a registry file whose writes fail;   *)
(*   SpecProducer one producer thread, the server answering in any way     *)
(*               (FairProducer adds the scheduling of its stream events);  *)
(*   SpecRespond one upload call with the catch block of its end handler;  *)
(*   SpecHttp    SpecWorker with the DELETE requests to /api/dlq/ routed   *)
(*               in registration order;                                    *)
(*   SpecRetry   SpecWorker under every value of DLQ_MAX_RETRIES;          *)
(*   SpecSimulated the worker pool running the processJobWithRetry that    *)
(*               has the simulated failure;                                *)
(*   Spec        the whole server.                                         *)
(***************************************************************************)
EXTENDS Integers, Sequences, FiniteSets, TLC

\* ---------------------------------------------------------------- bounds
\* largest queue capacity explored (capacities 0..MaxCapacity)
MaxCapacity == 2
\* number of job identifiers that may be generated in one behaviour
MaxJobs == 3
\* number of video files the producer discovers (file f is read in f chunks)
NumFiles == 2

\* number of consumer workers / concurrent dequeueAsync callers
NumWorkers == 2

\* number of upload calls the server handles concurrently
NumCalls == 2
\* largest number of data chunks received on one upload stream
MaxChunks == 2

Workers == 1..NumWorkers

Calls == 1..NumCalls

\* the call followed by the specifications that explore a single upload stream
OneCall == {1}

\* ------------------------------------------------------------ job values
\* null, as returned by dequeue / dequeueAsync (the shutdown sentinel)
Null == [id |-> 0, filename |-> "", data |-> <<>>, producerId |-> 0, md5Hash |-> 0]
\* the empty string / undefined md5Hash (falsy in the source)
NoHash == 0

\* jobs handed to enqueue by the callers of SpecQueue (Omit<VideoJob,'id'|'timestamp'>)
JobInputs ==
  { [filename |-> "a.mp4", data |-> <<1>>, producerId |-> 1, md5Hash |-> NoHash] }

\* fullJob = { ...job, id: uuidv4(), timestamp: Date.now() }; the identifier is
\* the next unused one, the timestamp is not modelled.
fullJob(job, id) ==
  [id |-> id, filename |-> job.filename, data |-> job.data,
   producerId |-> job.producerId, md5Hash |-> job.md5Hash]

VARIABLES
  queue,           \* VideoQueue.queue : sequence of jobs
  maxSize,         \* VideoQueue.maxSize
  waiters,         \* VideoQueue.waiters : suspended callers, oldest first
  isShuttingDown,  \* VideoQueue.isShuttingDown
  nextId,          \* next unused job identifier (uuidv4)
  pc,              \* per worker: position in its code
  held,            \* per worker: value its dequeueAsync promise resolved with
  resolved,        \* per worker: times the resolver of its pending promise ran
  returned,        \* history: ids of the jobs handed out by the queue, in order
  lastOp,          \* the queue operation performed by the last step and its result
  up,              \* per upload call: the locals of uploadVideo and its response
  registry,        \* VideoRegistry.registry : hash -> entry
  files,           \* paths of the files present in the upload directory
  dlq,             \* DeadLetterQueue.dlq : sequence of failed jobs
  attempt,         \* per worker: loop variable of processJobWithRetry
  timer,           \* per worker: delay of its pending backoff timer (0: none)
  disk,            \* upload directory listing: entry name -> byte count
  persisted,       \* the table last written to the registry file
  writable,        \* whether a write of the registry file succeeds
  producer,        \* the producer thread: its position, loop variables and streams
  maxRetries       \* MAX_RETRIES of the consumer, as loaded from DLQ_MAX_RETRIES

queueVars == <<queue, maxSize, waiters, isShuttingDown, nextId>>
callerVars == <<pc, held, resolved>>
sysVars == <<up, registry, files, dlq, attempt, timer, disk, persisted, writable, producer,
             maxRetries>>
vars == <<queue, maxSize, waiters, isShuttingDown, nextId, pc, held, resolved,
          returned, lastOp, up, registry, files, dlq, attempt, timer,
          disk, persisted, writable, producer, maxRetries>>

\* --------------------------------------------------- upload call values
\* UploadResponse { success, message, video_id, queue_full }
Response(success, message, video_id, queue_full) ==
  [success |-> success, message |-> message, video_id |-> video_id,
   queue_full |-> queue_full]

\* no response sent yet
NoResponse == Response(FALSE, "", "", FALSE)

\* the locals of one uploadVideo call before any message: filename = '',
\* producerId = 0, expectedHash = '', chunks = []; arrived is the history of
\* the data payloads the stream delivered, in arrival order
NoSession ==
  [st |-> "idle", filename |-> "", producerId |-> 0, expectedHash |-> NoHash,
   chunks |-> <<>>, arrived |-> <<>>, response |-> NoResponse]

\* bytes of a payload
Bytes == {1, 2}

\* payloads of one data chunk: the empty buffer (closing marker) and one byte
ChunkData == {<<>>} \cup { <<b>> : b \in Bytes }

Op(op, who, ret, arg) == [op |-> op, who |-> who, ret |-> ret, arg |-> arg]

\* ------------------------------------------------------- VideoQueue: pure
\* mutants of isFull: accepts one job too many / rejects one job too early
isFull_late(q, cap) == Len(q) > cap

isFull_early(q, cap) == Len(q) + 1 >= cap

isFull(q, cap) == Len(q) >= cap

isEmpty(q) == Len(q) = 0

\* resolve(v) of the promise worker w is suspended on: the first call settles
\* the promise, every call is counted.
Resolve(st, w, v) ==
  [pc |-> [st.pc EXCEPT ![w] = "resolved"],
   held |-> [st.held EXCEPT ![w] = IF st.resolved[w] = 0 THEN v ELSE @],
   resolved |-> [st.resolved EXCEPT ![w] = @ + 1]]

\* mutant of enqueue: a full queue evicts its oldest job to admit the new one
enqueue_evict(q, cap, ws, job, id) ==
  IF Len(q) >= cap
  THEN [ret |-> FALSE,
        queue |-> IF Len(q) > 0 THEN Append(Tail(q), [id |-> id, filename |-> job.filename,
                       data |-> job.data, producerId |-> job.producerId,
                       md5Hash |-> job.md5Hash]) ELSE q,
        waiters |-> ws, woken |-> <<>>]
  ELSE LET q1 == Append(q, [id |-> id, filename |-> job.filename, data |-> job.data,
                            producerId |-> job.producerId, md5Hash |-> job.md5Hash]) IN
       IF Len(ws) > 0
       THEN [ret |-> TRUE, queue |-> Tail(q1), waiters |-> Tail(ws),
             woken |-> << <<Head(ws), Head(q1)>> >>]
       ELSE [ret |-> TRUE, queue |-> q1, waiters |-> ws, woken |-> <<>>]

\* mutant of enqueue: the job handed to a waiter is also left in the queue
enqueue_keep(q, cap, ws, job, id) ==
  IF Len(q) >= cap
  THEN [ret |-> FALSE, queue |-> q, waiters |-> ws, woken |-> <<>>]
  ELSE LET q1 == Append(q, [id |-> id, filename |-> job.filename, data |-> job.data,
                            producerId |-> job.producerId, md5Hash |-> job.md5Hash]) IN
       IF Len(ws) > 0
       THEN [ret |-> TRUE, queue |-> q1, waiters |-> Tail(ws),
             woken |-> << <<Head(ws), Head(q1)>> >>]
       ELSE [ret |-> TRUE, queue |-> q1, waiters |-> ws, woken |-> <<>>]

\* mutant of enqueue: the job is pushed and no waiting consumer is woken
enqueue_noWake(q, cap, ws, job, id) ==
  IF isFull(q, cap)
  THEN [ret |-> FALSE, queue |-> q, waiters |-> ws, woken |-> <<>>]
  ELSE [ret |-> TRUE, queue |-> Append(q, fullJob(job, id)), waiters |-> ws, woken |-> <<>>]

\* enqueue(job): result, new queue, new waiters, and the waiter woken (if any)
enqueue(q, cap, ws, job, id) ==
  IF isFull(q, cap)
  THEN [ret |-> FALSE, queue |-> q, waiters |-> ws, woken |-> <<>>]
  ELSE LET q1 == Append(q, fullJob(job, id)) IN
       IF Len(ws) > 0
       THEN [ret |-> TRUE, queue |-> Tail(q1), waiters |-> Tail(ws),
             woken |-> << <<Head(ws), Head(q1)>> >>]
       ELSE [ret |-> TRUE, queue |-> q1, waiters |-> ws, woken |-> <<>>]

\* mutant of dequeue: removes the newest job (pop instead of shift)
dequeue_lifo(q) ==
  IF Len(q) = 0 THEN [ret |-> Null, queue |-> q]
  ELSE [ret |-> q[Len(q)], queue |-> SubSeq(q, 1, Len(q) - 1)]

\* dequeue(): non-blocking removal
dequeue(q) ==
  IF isEmpty(q) THEN [ret |-> Null, queue |-> q]
  ELSE [ret |-> Head(q), queue |-> Tail(q)]

\* mutant of dequeueAsync: the shutdown flag is not consulted
dequeueAsync_noflag(q, ws, down, w) ==
  IF Len(q) > 0
  THEN [kind |-> "job", ret |-> Head(q), queue |-> Tail(q), waiters |-> ws]
  ELSE [kind |-> "wait", ret |-> Null, queue |-> q, waiters |-> Append(ws, w)]

\* dequeueAsync(): "job" (immediate), "null" (shutting down) or "wait"
dequeueAsync(q, ws, down, w) ==
  IF ~isEmpty(q)
  THEN [kind |-> "job", ret |-> Head(q), queue |-> Tail(q), waiters |-> ws]
  ELSE IF down
       THEN [kind |-> "null", ret |-> Null, queue |-> q, waiters |-> ws]
       ELSE [kind |-> "wait", ret |-> Null, queue |-> q, waiters |-> Append(ws, w)]

\* mutant of wakeAll: 'if' instead of 'while', only the oldest waiter is woken
wakeAll_one(ws, st) ==
  IF Len(ws) > 0 THEN [waiters |-> Tail(ws), st |-> Resolve(st, Head(ws), Null)]
  ELSE [waiters |-> ws, st |-> st]

\* the loop of shutdown(): while waiters remain, shift one and resolve it with null
RECURSIVE wakeAll(_, _)
wakeAll(ws, st) ==
  IF Len(ws) > 0 THEN wakeAll(Tail(ws), Resolve(st, Head(ws), Null))
  ELSE [waiters |-> ws, st |-> st]

shutdown(ws, st) ==
  LET r == wakeAll(ws, st) IN
  [isShuttingDown |-> TRUE, waiters |-> r.waiters, st |-> r.st]

\* getUtilization() as the pair <<numerator, denominator>>; 1.0 is <<1, 1>>
getUtilization(q, cap) == IF cap = 0 THEN <<1, 1>> ELSE <<Len(q), cap>>

CallerState == [pc |-> pc, held |-> held, resolved |-> resolved]

\* ------------------------------------------------------------ producer
\* the producer thread before its loop over the discovered files
InitProducer ==
  [pc |-> "next", file |-> 0, attempt |-> 0, chunkNum |-> 0, delay |-> 0,
   canWrite |-> TRUE, paused |-> FALSE, log |-> <<>>]

\* ------------------------------------------------- numbers read from env
\* a JavaScript number as parseInt returns it: an integer or NaN
Num(n) == [nan |-> FALSE, n |-> n]
NaN == [nan |-> TRUE, n |-> 0]

\* a <= b and a < b for an integer a and a number b: false when b is NaN
le(a, b) == ~b.nan /\ a <= b.n
lt(a, b) == ~b.nan /\ a < b.n

\* the values DLQ_MAX_RETRIES may be set to; "" stands for unset or empty
EnvValues == {"", "3", "2", "1", "0", "-1", "abc"}

\* parseInt(text, 10) on these values: the decimal integer the text starts
\* with, NaN when it starts with none
parseInt(text) ==
  CASE text = "3" -> Num(3)
    [] text = "2" -> Num(2)
    [] text = "1" -> Num(1)
    [] text = "0" -> Num(0)
    [] text = "-1" -> Num(-1)
    [] OTHER -> NaN

\* parseInt(process.env.DLQ_MAX_RETRIES || '3', 10)
loadMaxRetries(env) == parseInt(IF env = "" THEN "3" ELSE env)

\* ------------------------------------------------------------- SpecQueue
InitQueue ==
  /\ queue = <<>>
  /\ maxSize \in 0..MaxCapacity
  /\ waiters = <<>>
  /\ isShuttingDown = FALSE
  /\ nextId = 1
  /\ pc = [w \in Workers |-> "idle"]
  /\ held = [w \in Workers |-> Null]
  /\ resolved = [w \in Workers |-> 0]
  /\ returned = <<>>
  /\ lastOp = Op("init", 0, "", 0)
  /\ up = [c \in Calls |-> NoSession]
  /\ registry = <<>>
  /\ files = {}
  /\ dlq = <<>>
  /\ attempt = [w \in Workers |-> 0]
  /\ timer = [w \in Workers |-> 0]
  /\ disk = <<>>
  /\ persisted = <<>>
  /\ writable = TRUE
  /\ producer = InitProducer
  /\ maxRetries = loadMaxRetries("")

\* a caller invokes enqueue(job)
QEnqueue(job) ==
  /\ nextId <= MaxJobs
  /\ LET r == enqueue(queue, maxSize, waiters, job, nextId) IN
     /\ queue' = r.queue
     /\ waiters' = r.waiters
     /\ nextId' = IF r.ret THEN nextId + 1 ELSE nextId
     /\ LET st == IF r.woken = <<>> THEN CallerState
                  ELSE Resolve(CallerState, r.woken[1][1], r.woken[1][2]) IN
        /\ pc' = st.pc
        /\ held' = st.held
        /\ resolved' = st.resolved
     /\ returned' = IF r.woken = <<>> THEN returned
                    ELSE Append(returned, r.woken[1][2].id)
     /\ lastOp' = Op("enqueue", 0, IF r.ret THEN "true" ELSE "false", Len(queue))
  /\ UNCHANGED <<maxSize, isShuttingDown, sysVars>>

\* a caller invokes the non-blocking dequeue()
QDequeue ==
  /\ LET r == dequeue(queue) IN
     /\ queue' = r.queue
     /\ returned' = IF r.ret = Null THEN returned ELSE Append(returned, r.ret.id)
     /\ lastOp' = Op("dequeue", 0, IF r.ret = Null THEN "null" ELSE "job", r.ret.id)
  /\ UNCHANGED <<maxSize, waiters, isShuttingDown, nextId, pc, held, resolved, sysVars>>

\* caller w invokes dequeueAsync()
QDequeueAsync(w) ==
  /\ pc[w] = "idle"
  /\ LET r == dequeueAsync(queue, waiters, isShuttingDown, w) IN
     /\ queue' = r.queue
     /\ waiters' = r.waiters
     /\ IF r.kind = "wait"
        THEN /\ pc' = [pc EXCEPT ![w] = "waiting"]
             /\ held' = [held EXCEPT ![w] = Null]
             /\ resolved' = [resolved EXCEPT ![w] = 0]
        ELSE /\ pc' = [pc EXCEPT ![w] = "resolved"]
             /\ held' = [held EXCEPT ![w] = r.ret]
             /\ resolved' = [resolved EXCEPT ![w] = 1]
     /\ returned' = IF r.kind = "job" THEN Append(returned, r.ret.id) ELSE returned
     /\ lastOp' = Op("dequeueAsync", w, r.kind, r.ret.id)
  /\ UNCHANGED <<maxSize, isShuttingDown, nextId, sysVars>>

\* caller w has consumed the value of its promise and may call again
QConsume(w) ==
  /\ pc[w] = "resolved"
  /\ pc' = [pc EXCEPT ![w] = "idle"]
  /\ held' = [held EXCEPT ![w] = Null]
  /\ resolved' = [resolved EXCEPT ![w] = 0]
  /\ lastOp' = Op("consume", w, "", 0)
  /\ UNCHANGED <<queueVars, returned, sysVars>>

\* a caller invokes shutdown()
QShutdown ==
  /\ LET r == shutdown(waiters, CallerState) IN
     /\ isShuttingDown' = r.isShuttingDown
     /\ waiters' = r.waiters
     /\ pc' = r.st.pc
     /\ held' = r.st.held
     /\ resolved' = r.st.resolved
  /\ lastOp' = Op("shutdown", 0, "", Len(waiters))
  /\ UNCHANGED <<queue, maxSize, nextId, returned, sysVars>>

NextQueue ==
  \/ \E job \in JobInputs : QEnqueue(job)
  \/ QDequeue
  \/ \E w \in Workers : QDequeueAsync(w)
  \/ \E w \in Workers : QConsume(w)
  \/ QShutdown

SpecQueue == InitQueue /\ [][NextQueue]_vars

\* ================================================================ server
\* retry ceiling and first backoff delay of processJobWithRetry (defaults)
MAX_RETRIES == 3

INITIAL_DELAY_MS == 1000

\* mutant of backoffDelay: the same delay after every failed attempt
backoffDelay_const(k) == INITIAL_DELAY_MS

\* delay = INITIAL_DELAY_MS * Math.pow(2, attempt - 1)
backoffDelay(k) == INITIAL_DELAY_MS * 2 ^ (k - 1)

\* crypto.createHash('md5').update(data).digest('hex'): a digest that depends
\* on the bytes and their order (one plus the bijective base-|Bytes| numeral);
\* never the empty string
RECURSIVE md5(_)
md5(data) ==
  IF Len(data) = 0 THEN 1
  ELSE (md5(SubSeq(data, 1, Len(data) - 1)) - 1) * Cardinality(Bytes)
         + data[Len(data)] + 1

\* hashes a producer may declare: none, or the digest of the payload <<1, 2>>
HashInputs == {NoHash, md5(<<1, 2>>)}

FilenameInputs == {"a.mp4"}

ProducerIds == {1}

\* chunk.metadata absent
NoMetadata == [filename |-> "", producerId |-> 0, md5Hash |-> NoHash]

MetadataInputs ==
  [filename : FilenameInputs, producerId : ProducerIds, md5Hash : HashInputs]

\* messages of the upload stream: a metadata message, a data chunk (the
\* closing marker is the data chunk with an empty buffer), or a message with
\* neither; chunk_number and is_last are only logged by the server
ChunkMsgs ==
  { [kind |-> "metadata", metadata |-> m, data |-> <<>>] : m \in MetadataInputs }
    \cup { [kind |-> "data", metadata |-> NoMetadata, data |-> d] : d \in ChunkData }
    \cup { [kind |-> "empty", metadata |-> NoMetadata, data |-> <<>>] }

\* mutant of onData: a data chunk is put in front of the chunks received so far
onData_unshift(s, chunk) ==
  IF chunk.kind = "metadata"
  THEN [s EXCEPT !.filename = chunk.metadata.filename,
                 !.producerId = chunk.metadata.producerId,
                 !.expectedHash = IF chunk.metadata.md5Hash # NoHash
                                  THEN chunk.metadata.md5Hash ELSE @]
  ELSE IF chunk.kind = "data"
       THEN [s EXCEPT !.chunks = <<chunk.data>> \o @]
       ELSE s

\* call.on('data', ...): the locals of the call after one message
onData(s, chunk) ==
  IF chunk.kind = "metadata"
  THEN [s EXCEPT !.filename = chunk.metadata.filename,
                 !.producerId = chunk.metadata.producerId,
                 !.expectedHash = IF chunk.metadata.md5Hash # NoHash
                                  THEN chunk.metadata.md5Hash ELSE @]
  ELSE IF chunk.kind = "data"
       THEN [s EXCEPT !.chunks = Append(@, chunk.data)]
       ELSE s

\* Buffer.concat(chunks)
RECURSIVE concat(_)
concat(chunks) ==
  IF Len(chunks) = 0 THEN <<>> ELSE Head(chunks) \o concat(Tail(chunks))

\* mutant of hashMismatch: the integrity check never fails
hashMismatch_never(expectedHash, completeVideo) == FALSE

\* calculatedHash !== expectedHash
hashMismatch(expectedHash, completeVideo) == md5(completeVideo) # expectedHash

\* -------------------------------------------------------- VideoRegistry
\* the placeholder path 'pending' and the paths of saved files
Pending == [shortId |-> 0, name |-> "pending"]

\* FileHandler.generateUniqueFilename / finalPath: id prefix and original name
\* (the timestamp is not modelled; model filenames hold only preserved characters)
generateUniqueFilename(videoId, originalName) ==
  [shortId |-> videoId, name |-> originalName]

\* fs.existsSync(path) on the upload directory
existsSync(fs, path) == path \in fs

Without(reg, h) == [x \in DOMAIN reg \ {h} |-> reg[x]]

\* mutant of isDuplicate: the placeholder path is checked on disk like any other
isDuplicate_nopending(reg, fs, hash) ==
  IF hash \notin DOMAIN reg THEN [ret |-> FALSE, registry |-> reg]
  ELSE IF ~(reg[hash].path \in fs)
       THEN [ret |-> FALSE, registry |-> [x \in DOMAIN reg \ {hash} |-> reg[x]]]
       ELSE [ret |-> TRUE, registry |-> reg]

\* mutant of isDuplicate: finding a stale entry evicts every stale entry
isDuplicate_sweep(reg, fs, hash) ==
  IF hash \notin DOMAIN reg THEN [ret |-> FALSE, registry |-> reg]
  ELSE IF reg[hash].path # Pending /\ ~existsSync(fs, reg[hash].path)
       THEN [ret |-> FALSE,
             registry |-> [x \in { h \in DOMAIN reg : reg[h].path = Pending
                                                     \/ existsSync(fs, reg[h].path) }
                             |-> reg[x]]]
       ELSE [ret |-> TRUE, registry |-> reg]

\* isDuplicate(hash): result and registry (a stale entry is evicted)
isDuplicate(reg, fs, hash) ==
  IF hash \notin DOMAIN reg THEN [ret |-> FALSE, registry |-> reg]
  ELSE IF reg[hash].path # Pending /\ ~existsSync(fs, reg[hash].path)
       THEN [ret |-> FALSE, registry |-> Without(reg, hash)]
       ELSE [ret |-> TRUE, registry |-> reg]

\* mutant of register: the entry is stored with an empty path, whatever was given
register_emptyPath(reg, hash, filename, path, producerId) ==
  [x \in DOMAIN reg \cup {hash} |->
     IF x = hash THEN [filename |-> filename, path |-> [shortId |-> 0, name |-> ""],
                       producerId |-> producerId]
     ELSE reg[x]]

\* register(hash, filename, path, producerId); uploadedAt is not modelled
register(reg, hash, filename, path, producerId) ==
  [x \in DOMAIN reg \cup {hash} |->
     IF x = hash THEN [filename |-> filename, path |-> path, producerId |-> producerId]
     ELSE reg[x]]

\* mutant of updatePath: the entry keeps the path it had
updatePath_noop(reg, hash, path) == reg

\* updatePath(hash, path)
updatePath(reg, hash, path) ==
  IF hash \in DOMAIN reg THEN [reg EXCEPT ![hash].path = path] ELSE reg

\* remove(hash): result and registry
remove(reg, hash) ==
  [ret |-> hash \in DOMAIN reg, registry |-> Without(reg, hash)]

\* validateAndCleanup(): every entry whose file is missing is removed
validateAndCleanup(reg, fs) ==
  LET hashesToRemove ==
        { h \in DOMAIN reg : reg[h].path # Pending /\ ~existsSync(fs, reg[h].path) }
  IN [ret |-> Cardinality(hashesToRemove),
      registry |-> [x \in DOMAIN reg \ hashesToRemove |-> reg[x]]]

\* mutant of saveToFile: a failed write is not swallowed, the table is lost
saveToFile_truncate(file, reg, ok) == IF ok THEN reg ELSE <<>>

\* saveToFile(): the whole table is written to the registry file; a failure
\* of writeFileSync (ok = FALSE) is logged and swallowed, the file keeps what
\* it held (persistEnabled is true, the default)
saveToFile(file, reg, ok) == IF ok THEN reg ELSE file

\* ---------------------------------------------------------- FileHandler
\* finalPath = path.join(uploadDir, generateUniqueFilename(videoId, name)),
\* as a directory entry (ext distinguishes it from its temporary file)
finalPath(job) ==
  [path |-> generateUniqueFilename(job.id, job.filename), ext |-> ""]

\* mutant of tempPath: the payload is written under the final name
tempPath_final(final) == final

\* tempPath = `${finalPath}.tmp`
tempPath(final) == [final EXCEPT !.ext = ".tmp"]

\* fs.promises.writeFile(path, data), as far as n bytes
writeFile(d, entry, n) ==
  [x \in DOMAIN d \cup {entry} |-> IF x = entry THEN n ELSE d[x]]

\* fs.promises.unlink(path) / fs.unlinkSync(path)
unlink(d, entry) == [x \in DOMAIN d \ {entry} |-> d[x]]

\* mutant of rename: the file is copied, the source stays
rename_copy(d, from, to) ==
  [x \in DOMAIN d \cup {to} |-> IF x = to THEN d[from] ELSE d[x]]

\* fs.promises.rename(from, to)
rename(d, from, to) ==
  [x \in (DOMAIN d \ {from}) \cup {to} |-> IF x = to THEN d[from] ELSE d[x]]

\* validateFile(filepath, expectedSize): the file exists and has that size
validateFile(d, filepath, expectedSize) ==
  filepath \in DOMAIN d /\ d[filepath] = expectedSize

\* the listing without the saved file of that path
unlinkSaved(d, path) ==
  [x \in { e \in DOMAIN d : ~(e.path = path /\ e.ext = "") } |-> d[x]]

\* ------------------------------------------------------ DeadLetterQueue
\* mutant of addToQueue: the entry is not stored
addToQueue_drop(d, job, error, attempts) == d

\* addToQueue(job, error, attempts); failedAt is not modelled
addToQueue(d, job, error, attempts) ==
  Append(d, [job |-> job, error |-> error, attempts |-> attempts])

\* mutant of removeById: the entry is reported as removed but stays in the DLQ
removeById_keep(d, jobId) ==
  [ret |-> \E i \in 1..Len(d) : d[i].job.id = jobId, dlq |-> d]

\* removeById(jobId): the first entry with that job id is spliced out
removeById(d, jobId) ==
  LET idx == { i \in 1..Len(d) : d[i].job.id = jobId } IN
  IF idx = {} THEN [ret |-> FALSE, dlq |-> d]
  ELSE LET k == CHOOSE i \in idx : \A j \in idx : i <= j IN
       [ret |-> TRUE, dlq |-> SubSeq(d, 1, k - 1) \o SubSeq(d, k + 1, Len(d))]

\* ---------------------------------------------------------- event loop
\* a resolved promise has a continuation pending: it runs before any other
\* callback of the event loop
Busy == \E w \in Workers : pc[w] = "resolved"

\* the server after start, DLQ_MAX_RETRIES left unset
InitServer ==
  /\ queue = <<>>
  /\ maxSize \in 0..MaxCapacity
  /\ waiters = [i \in 1..NumWorkers |-> i]
  /\ isShuttingDown = FALSE
  /\ nextId = 1
  /\ pc = [w \in Workers |-> "waiting"]
  /\ held = [w \in Workers |-> Null]
  /\ resolved = [w \in Workers |-> 0]
  /\ returned = <<>>
  /\ lastOp = Op("init", 0, "", 0)
  /\ up = [c \in Calls |-> NoSession]
  /\ registry = <<>>
  /\ files = {}
  /\ dlq = <<>>
  /\ attempt = [w \in Workers |-> 0]
  /\ timer = [w \in Workers |-> 0]
  /\ disk = <<>>
  /\ persisted = <<>>
  /\ writable = TRUE
  /\ producer = InitProducer

\* state after createConsumerPool: every worker ran startConsumerThread up to
\* its first dequeueAsync on the empty queue, in index order
Init ==
  /\ InitServer
  /\ maxRetries = loadMaxRetries("")

\* the same with DLQ_MAX_RETRIES set to any of EnvValues
InitRetry ==
  /\ InitServer
  /\ maxRetries \in { loadMaxRetries(env) : env \in EnvValues }

\* the effect of an enqueue result r on the queue and on the woken worker
ApplyEnqueue(r) ==
  /\ queue' = r.queue
  /\ waiters' = r.waiters
  /\ nextId' = IF r.ret THEN nextId + 1 ELSE nextId
  /\ LET st == IF r.woken = <<>> THEN CallerState
               ELSE Resolve(CallerState, r.woken[1][1], r.woken[1][2]) IN
     /\ pc' = st.pc
     /\ held' = st.held
     /\ resolved' = st.resolved
  /\ returned' = IF r.woken = <<>> THEN returned
                 ELSE Append(returned, r.woken[1][2].id)

\* a producer opens an upload call (uploadVideo is invoked)
UploadOpen(c) ==
  /\ ~Busy
  /\ up[c].st \in {"idle", "done"}
  /\ up' = [up EXCEPT ![c] = [NoSession EXCEPT !.st = "open"]]
  /\ UNCHANGED <<queueVars, callerVars, returned, lastOp, registry, files, dlq, attempt, timer, disk, persisted, writable, producer, maxRetries>>

\* call.on('data'): one message of the stream arrives
UploadData(c, chunk) ==
  /\ ~Busy
  /\ up[c].st = "open"
  /\ chunk.kind = "data" => Len(up[c].chunks) < MaxChunks
  /\ up' = [up EXCEPT ![c] =
              [onData(@, chunk) EXCEPT !.arrived =
                 IF chunk.kind = "data" THEN Append(up[c].arrived, chunk.data)
                 ELSE up[c].arrived]]
  /\ UNCHANGED <<queueVars, callerVars, returned, lastOp, registry, files, dlq, attempt, timer, disk, persisted, writable, producer, maxRetries>>

\* the call ends with the response resp; its locals are dropped
Respond(c, resp) ==
  up' = [up EXCEPT ![c] = [NoSession EXCEPT !.st = "done", !.response = resp]]

\* mutant of afterEnqueue: the hash is registered whatever enqueue returned
afterEnqueue_registerFirst(jobAdded, reg, s) ==
  [registry |-> IF s.expectedHash # NoHash
                THEN register(reg, s.expectedHash, s.filename, Pending, s.producerId)
                ELSE reg,
   response |-> IF ~jobAdded THEN Response(FALSE, "queue_full", "", TRUE)
                ELSE Response(TRUE, "queued", "pending", FALSE)]

\* mutant of afterEnqueue: the hash is registered by the worker only, once the
\* file is saved
afterEnqueue_noPlaceholder(jobAdded, reg, s) ==
  [registry |-> reg,
   response |-> IF ~jobAdded THEN Response(FALSE, "queue_full", "", TRUE)
                ELSE Response(TRUE, "queued", "pending", FALSE)]

\* mutant of afterEnqueue: the queue-full branch returns without calling the
\* callback
afterEnqueue_silent(jobAdded, reg, s) ==
  IF ~jobAdded
  THEN [registry |-> reg, response |-> NoResponse]
  ELSE [registry |-> IF s.expectedHash # NoHash
                     THEN register(reg, s.expectedHash, s.filename, Pending, s.producerId)
                     ELSE reg,
        response |-> Response(TRUE, "queued", "pending", FALSE)]

\* what the end handler does with the result of enqueue: the queue-full
\* response, or the placeholder registration and the success response
afterEnqueue(jobAdded, reg, s) ==
  IF ~jobAdded
  THEN [registry |-> reg, response |-> Response(FALSE, "queue_full", "", TRUE)]
  ELSE [registry |-> IF s.expectedHash # NoHash
                     THEN register(reg, s.expectedHash, s.filename, Pending, s.producerId)
                     ELSE reg,
        response |-> Response(TRUE, "queued", "pending", FALSE)]

\* call.on('end'): reassemble, verify, check for a duplicate, enqueue, register
UploadEnd(c) ==
  /\ ~Busy
  /\ up[c].st = "open"
  /\ LET s == up[c]
         completeVideo == concat(s.chunks)
     IN
     IF s.expectedHash # NoHash /\ hashMismatch(s.expectedHash, completeVideo)
     THEN /\ Respond(c, Response(FALSE, "integrity", "", FALSE))
          /\ UNCHANGED <<queueVars, callerVars, returned, registry, persisted>>
     ELSE LET dup == IF s.expectedHash # NoHash
                     THEN isDuplicate(registry, files, s.expectedHash)
                     ELSE [ret |-> FALSE, registry |-> registry]
          IN
          IF dup.ret
          THEN /\ Respond(c, Response(FALSE, "duplicate", "", FALSE))
               /\ registry' = dup.registry
               /\ UNCHANGED <<queueVars, callerVars, returned, persisted>>
          ELSE LET r == enqueue(queue, maxSize, waiters,
                          [filename |-> s.filename, data |-> completeVideo,
                           producerId |-> s.producerId, md5Hash |-> s.expectedHash],
                          nextId)
               IN
               /\ r.ret => nextId <= MaxJobs
               /\ ApplyEnqueue(r)
               /\ UNCHANGED maxSize
               /\ UNCHANGED isShuttingDown
               /\ LET o == afterEnqueue(r.ret, dup.registry, s) IN
                  /\ registry' = o.registry
                  /\ persisted' = IF o.registry # registry
                                  THEN saveToFile(persisted, o.registry, writable)
                                  ELSE persisted
                  /\ Respond(c, o.response)
  /\ UNCHANGED <<lastOp, files, dlq, attempt, timer, disk, writable, producer, maxRetries>>

\* call.on('end') when Buffer.concat throws: the catch block answers with the
\* error response; nothing was enqueued or registered
UploadEndThrows(c) ==
  /\ ~Busy
  /\ up[c].st = "open"
  /\ Respond(c, Response(FALSE, "error", "", FALSE))
  /\ UNCHANGED <<queueVars, callerVars, returned, lastOp, registry, files, dlq, attempt, timer, disk, persisted, writable, producer, maxRetries>>

\* call.on('error'): the stream fails, nothing is answered
UploadError(c) ==
  /\ ~Busy
  /\ up[c].st = "open"
  /\ up' = [up EXCEPT ![c] = NoSession]
  /\ UNCHANGED <<queueVars, callerVars, returned, lastOp, registry, files, dlq, attempt, timer, disk, persisted, writable, producer, maxRetries>>

\* the top of the loop of startConsumerThread for worker w, given the queue
\* state: leave when shut down, else dequeueAsync
LoopTop(w, q, ws, st) ==
  IF isShuttingDown
  THEN [queue |-> q, waiters |-> ws, got |-> <<>>,
        st |-> [st EXCEPT !.pc[w] = "stopped", !.held[w] = Null, !.resolved[w] = 0]]
  ELSE LET r == dequeueAsync(q, ws, isShuttingDown, w) IN
       [queue |-> r.queue, waiters |-> r.waiters,
        got |-> IF r.kind = "job" THEN <<r.ret.id>> ELSE <<>>,
        st |-> IF r.kind = "wait"
               THEN [st EXCEPT !.pc[w] = "waiting", !.held[w] = Null, !.resolved[w] = 0]
               ELSE [st EXCEPT !.pc[w] = "resolved", !.held[w] = r.ret, !.resolved[w] = 1]]

ApplyLoopTop(w) ==
  LET l == LoopTop(w, queue, waiters, CallerState) IN
  /\ queue' = l.queue
  /\ waiters' = l.waiters
  /\ pc' = l.st.pc
  /\ held' = l.st.held
  /\ resolved' = l.st.resolved
  /\ returned' = returned \o l.got

\* continuation of 'await queue.dequeueAsync()': null ends the worker, a job
\* starts processJobWithRetry, which runs up to the await of saveVideo
WorkerResume(w) ==
  /\ pc[w] = "resolved"
  /\ IF held[w] = Null
     THEN /\ pc' = [pc EXCEPT ![w] = "stopped"]
          /\ resolved' = [resolved EXCEPT ![w] = 0]
          /\ UNCHANGED <<queue, waiters, held, returned, attempt>>
     ELSE IF le(1, maxRetries)
          THEN /\ pc' = [pc EXCEPT ![w] = "saving"]
               /\ resolved' = [resolved EXCEPT ![w] = 0]
               /\ attempt' = [attempt EXCEPT ![w] = 1]
               /\ UNCHANGED <<queue, waiters, held, returned>>
          ELSE /\ ApplyLoopTop(w)
               /\ UNCHANGED attempt
  /\ UNCHANGED <<maxSize, isShuttingDown, nextId, lastOp, up, registry, files, dlq, timer, disk, persisted, writable, producer, maxRetries>>

\* saveVideo resolves with success: the file exists under its final path, the
\* registry entry gets that path, and the worker loops
SaveSucceeds(w) ==
  /\ ~Busy
  /\ pc[w] = "saving"
  /\ LET job == held[w]
         filepath == generateUniqueFilename(job.id, job.filename)
     IN /\ files' = files \cup {filepath}
        /\ disk' = writeFile(disk, finalPath(job), Len(job.data))
        /\ registry' = IF job.md5Hash # NoHash
                       THEN updatePath(registry, job.md5Hash, filepath)
                       ELSE registry
        /\ persisted' = IF job.md5Hash # NoHash /\ job.md5Hash \in DOMAIN registry
                        THEN saveToFile(persisted, registry', writable)
                        ELSE persisted
  /\ attempt' = [attempt EXCEPT ![w] = 0]
  /\ ApplyLoopTop(w)
  /\ UNCHANGED <<maxSize, isShuttingDown, nextId, lastOp, up, dlq, timer, writable, producer, maxRetries>>

\* mutant of SaveFails: the error thrown after dead-lettering is not caught by
\* the loop of startConsumerThread, which ends the worker
SaveFails_uncaught(w) ==
  /\ ~Busy
  /\ pc[w] = "saving"
  /\ IF lt(attempt[w], maxRetries)
     THEN /\ pc' = [pc EXCEPT ![w] = "backoff"]
          /\ timer' = [timer EXCEPT ![w] = backoffDelay(attempt[w])]
          /\ UNCHANGED <<queue, waiters, held, resolved, returned, dlq, attempt>>
     ELSE /\ dlq' = addToQueue(dlq, held[w], "save failed", maxRetries.n)
          /\ attempt' = [attempt EXCEPT ![w] = 0]
          /\ pc' = [pc EXCEPT ![w] = "stopped"]
          /\ held' = [held EXCEPT ![w] = Null]
          /\ UNCHANGED <<queue, waiters, resolved, returned, timer>>
  /\ UNCHANGED <<maxSize, isShuttingDown, nextId, lastOp, up, registry, files, disk, persisted, writable, producer, maxRetries>>

\* saveVideo resolves with success = false: back off, or dead-letter the job
\* after the last attempt and loop
SaveFails(w) ==
  /\ ~Busy
  /\ pc[w] = "saving"
  /\ IF lt(attempt[w], maxRetries)
     THEN /\ pc' = [pc EXCEPT ![w] = "backoff"]
          /\ timer' = [timer EXCEPT ![w] = backoffDelay(attempt[w])]
          /\ UNCHANGED <<queue, waiters, held, resolved, returned, dlq, attempt>>
     ELSE /\ dlq' = addToQueue(dlq, held[w], "save failed", maxRetries.n)
          /\ attempt' = [attempt EXCEPT ![w] = 0]
          /\ ApplyLoopTop(w)
          /\ UNCHANGED timer
  /\ UNCHANGED <<maxSize, isShuttingDown, nextId, lastOp, up, registry, files, disk, persisted, writable, producer, maxRetries>>

\* the backoff timer fires: next attempt
BackoffDone(w) ==
  /\ ~Busy
  /\ pc[w] = "backoff"
  /\ attempt' = [attempt EXCEPT ![w] = @ + 1]
  /\ pc' = [pc EXCEPT ![w] = "saving"]
  /\ timer' = [timer EXCEPT ![w] = 0]
  /\ UNCHANGED <<queueVars, held, resolved, returned, lastOp, up, registry, files, dlq, disk, persisted, writable, producer, maxRetries>>

\* ------------------------------------------- saveVideo, step by step
\* the catch branch of processJobWithRetry after saveVideo resolved with
\* success = false: back off, or dead-letter the job after the last attempt
AttemptFails(w) ==
  IF lt(attempt[w], maxRetries)
  THEN /\ pc' = [pc EXCEPT ![w] = "backoff"]
       /\ timer' = [timer EXCEPT ![w] = backoffDelay(attempt[w])]
       /\ UNCHANGED <<queue, waiters, held, resolved, returned, dlq, attempt>>
  ELSE /\ dlq' = addToQueue(dlq, held[w], "save failed", maxRetries.n)
       /\ attempt' = [attempt EXCEPT ![w] = 0]
       /\ ApplyLoopTop(w)
       /\ UNCHANGED timer

\* writeFile(tempPath, videoData) begins: the file is created or truncated
WriteStart(w) ==
  /\ ~Busy
  /\ pc[w] = "saving"
  /\ pc' = [pc EXCEPT ![w] = "writing"]
  /\ disk' = writeFile(disk, tempPath(finalPath(held[w])), 0)
  /\ UNCHANGED <<queueVars, held, resolved, returned, lastOp, up, registry, files, dlq,
                 attempt, timer, persisted, writable, producer, maxRetries>>

\* writeFile resolves with n bytes in the file (all of them, unless the
\* file system lost some)
WriteDone(w, n) ==
  /\ ~Busy
  /\ pc[w] = "writing"
  /\ n \in 0..Len(held[w].data)
  /\ pc' = [pc EXCEPT ![w] = "written"]
  /\ disk' = writeFile(disk, tempPath(finalPath(held[w])), n)
  /\ UNCHANGED <<queueVars, held, resolved, returned, lastOp, up, registry, files, dlq,
                 attempt, timer, persisted, writable, producer, maxRetries>>

\* writeFile rejects after n bytes: saveVideo catches and resolves with
\* success = false; nothing removes what was written
WriteFails(w, n) ==
  /\ ~Busy
  /\ pc[w] = "writing"
  /\ n \in 0..(Len(held[w].data) - 1)
  /\ disk' = writeFile(disk, tempPath(finalPath(held[w])), n)
  /\ AttemptFails(w)
  /\ UNCHANGED <<maxSize, isShuttingDown, nextId, lastOp, up, registry, files,
                 persisted, writable, producer, maxRetries>>

\* validateFile(tempPath, videoData.length): a file of another size is
\* unlinked and saveVideo resolves with success = false
Validate(w) ==
  /\ ~Busy
  /\ pc[w] = "written"
  /\ IF validateFile(disk, tempPath(finalPath(held[w])), Len(held[w].data))
     THEN /\ pc' = [pc EXCEPT ![w] = "validated"]
          /\ UNCHANGED <<queue, waiters, held, resolved, returned, dlq, attempt, timer, disk>>
     ELSE /\ disk' = unlink(disk, tempPath(finalPath(held[w])))
          /\ AttemptFails(w)
  /\ UNCHANGED <<maxSize, isShuttingDown, nextId, lastOp, up, registry, files,
                 persisted, writable, producer, maxRetries>>

\* mutant of Rename: the file is renamed, but the attempt is handled as failed
Rename_thenFail(w) ==
  /\ ~Busy
  /\ pc[w] = "validated"
  /\ disk' = rename(disk, tempPath(finalPath(held[w])), finalPath(held[w]))
  /\ AttemptFails(w)
  /\ UNCHANGED <<maxSize, isShuttingDown, nextId, lastOp, up, registry, files,
                 persisted, writable, producer, maxRetries>>

\* rename(tempPath, finalPath) succeeds: saveVideo resolves with success,
\* processJobWithRetry updates the registry and returns, the worker loops
\* (lastOp records the attempt that succeeded and the job)
Rename(w) ==
  /\ ~Busy
  /\ pc[w] = "validated"
  /\ LET job == held[w]
         filepath == generateUniqueFilename(job.id, job.filename)
     IN /\ disk' = rename(disk, tempPath(finalPath(job)), finalPath(job))
        /\ files' = files \cup {filepath}
        /\ registry' = IF job.md5Hash # NoHash
                       THEN updatePath(registry, job.md5Hash, filepath)
                       ELSE registry
        /\ persisted' = IF job.md5Hash # NoHash /\ job.md5Hash \in DOMAIN registry
                        THEN saveToFile(persisted, registry', writable)
                        ELSE persisted
  /\ attempt' = [attempt EXCEPT ![w] = 0]
  /\ lastOp' = Op("saveVideo", w, attempt[w], held[w].id)
  /\ ApplyLoopTop(w)
  /\ UNCHANGED <<maxSize, isShuttingDown, nextId, up, dlq, timer, writable, producer, maxRetries>>

\* rename rejects: saveVideo catches and resolves with success = false; the
\* temporary file stays
RenameFails(w) ==
  /\ ~Busy
  /\ pc[w] = "validated"
  /\ AttemptFails(w)
  /\ UNCHANGED <<maxSize, isShuttingDown, nextId, lastOp, up, registry, files, disk,
                 persisted, writable, producer, maxRetries>>

\* shutdownConsumers: queue.shutdown()
Shutdown ==
  /\ ~Busy
  /\ ~isShuttingDown
  /\ LET r == shutdown(waiters, CallerState) IN
     /\ isShuttingDown' = r.isShuttingDown
     /\ waiters' = r.waiters
     /\ pc' = r.st.pc
     /\ held' = r.st.held
     /\ resolved' = r.st.resolved
  /\ UNCHANGED <<queue, maxSize, nextId, returned, lastOp, sysVars>>

\* mutant of retryJob: the entry is taken out of the DLQ before the capacity
\* of the queue is looked at
retryJob_removeFirst(jobId) ==
  /\ ~Busy
  /\ IF ~(\E i \in 1..Len(dlq) : dlq[i].job.id = jobId)
     THEN /\ lastOp' = Op("retryJob", 0, "404", jobId)
          /\ UNCHANGED <<queueVars, callerVars, returned, dlq>>
     ELSE LET failedJob == dlq[CHOOSE i \in 1..Len(dlq) :
                                 /\ dlq[i].job.id = jobId
                                 /\ \A j \in 1..(i - 1) : dlq[j].job.id # jobId]
          IN
          IF Len(queue) >= maxSize
          THEN /\ lastOp' = Op("retryJob", 0, "503", jobId)
               /\ dlq' = removeById(dlq, jobId).dlq
               /\ UNCHANGED <<queueVars, callerVars, returned>>
          ELSE LET r == enqueue(queue, maxSize, waiters,
                          [filename |-> failedJob.job.filename, data |-> failedJob.job.data,
                           producerId |-> failedJob.job.producerId,
                           md5Hash |-> failedJob.job.md5Hash], nextId)
               IN /\ r.ret => nextId <= MaxJobs
                  /\ ApplyEnqueue(r)
                  /\ UNCHANGED <<maxSize, isShuttingDown>>
                  /\ dlq' = removeById(dlq, jobId).dlq
                  /\ lastOp' = Op("retryJob", 0, IF r.ret THEN "200" ELSE "503", jobId)
  /\ UNCHANGED <<up, registry, files, attempt, timer, disk, persisted, writable, producer, maxRetries>>

\* POST /api/dlq/retry/:jobId: 404 when the job is not in the DLQ, 503 when
\* the queue is full or enqueue fails, else the job is enqueued again (under
\* a new identifier) and its entry removed; lastOp records the status
retryJob(jobId) ==
  /\ ~Busy
  /\ IF ~(\E i \in 1..Len(dlq) : dlq[i].job.id = jobId)
     THEN /\ lastOp' = Op("retryJob", 0, "404", jobId)
          /\ UNCHANGED <<queueVars, callerVars, returned, dlq>>
     ELSE LET failedJob == dlq[CHOOSE i \in 1..Len(dlq) :
                                 /\ dlq[i].job.id = jobId
                                 /\ \A j \in 1..(i - 1) : dlq[j].job.id # jobId]
          IN
          IF isFull(queue, maxSize)
          THEN /\ lastOp' = Op("retryJob", 0, "503", jobId)
               /\ UNCHANGED <<queueVars, callerVars, returned, dlq>>
          ELSE LET r == enqueue(queue, maxSize, waiters,
                          [filename |-> failedJob.job.filename, data |-> failedJob.job.data,
                           producerId |-> failedJob.job.producerId,
                           md5Hash |-> failedJob.job.md5Hash], nextId)
               IN /\ r.ret => nextId <= MaxJobs
                  /\ ApplyEnqueue(r)
                  /\ UNCHANGED <<maxSize, isShuttingDown>>
                  /\ dlq' = IF r.ret THEN removeById(dlq, jobId).dlq ELSE dlq
                  /\ lastOp' = Op("retryJob", 0, IF r.ret THEN "200" ELSE "503", jobId)
  /\ UNCHANGED <<up, registry, files, attempt, timer, disk, persisted, writable, producer, maxRetries>>

\* DELETE /api/dlq/:jobId
deleteJob(jobId) ==
  /\ ~Busy
  /\ removeById(dlq, jobId).ret
  /\ dlq' = removeById(dlq, jobId).dlq
  /\ UNCHANGED <<queueVars, callerVars, returned, lastOp, up, registry, files, attempt, timer, disk, persisted, writable, producer, maxRetries>>

\* DELETE /api/dlq/clear handled by clearDlq
clearDlq ==
  /\ ~Busy
  /\ dlq # <<>>
  /\ dlq' = <<>>
  /\ UNCHANGED <<queueVars, callerVars, returned, lastOp, up, registry, files, attempt, timer, disk, persisted, writable, producer, maxRetries>>

\* the routes of the dead-letter queue, in the order app.get / app.post /
\* app.delete register them
DlqRoutes ==
  << [method |-> "GET", path |-> <<"api", "dlq", "status">>, handler |-> "getDlqStatus"],
     [method |-> "POST", path |-> <<"api", "dlq", "retry", ":jobId">>, handler |-> "retryJob"],
     [method |-> "DELETE", path |-> <<"api", "dlq", ":jobId">>, handler |-> "deleteJob"],
     [method |-> "DELETE", path |-> <<"api", "dlq", "clear">>, handler |-> "clearDlq"] >>

\* a segment of a route pattern that is a named parameter
isParam(segment) == segment \in {":jobId"}

\* a route matches a request of its method whose path has as many segments,
\* each equal to the pattern's segment unless that one is a parameter
matches(route, method, path) ==
  /\ route.method = method
  /\ Len(route.path) = Len(path)
  /\ \A i \in 1..Len(path) : isParam(route.path[i]) \/ route.path[i] = path[i]

\* the router: the handler of the first registered route that matches
dispatch(routes, method, path) ==
  LET hits == { i \in 1..Len(routes) : matches(routes[i], method, path) } IN
  IF hits = {} THEN "notFound"
  ELSE routes[CHOOSE i \in hits : \A j \in hits : i <= j].handler

\* the job id (a uuid) as it is written in a request path
idText(id) == <<"uuid-1", "uuid-2", "uuid-3", "uuid-4">>[id]

\* the job a path segment names; 0 when the segment is no id of any job
jobOf(segment) ==
  IF \E id \in 1..MaxJobs : idText(id) = segment
  THEN CHOOSE id \in 1..MaxJobs : idText(id) = segment
  ELSE 0

\* the last segments of the DELETE requests sent to /api/dlq/
DlqSegments == {"clear"} \cup { idText(id) : id \in 1..MaxJobs }

\* the request DELETE /api/dlq/<segment>, routed to deleteJob (req.params.jobId
\* is the segment) or to clearDlq; lastOp records the request, the status and
\* the clearedJobs of the answer
HttpDeleteDlq(segment) ==
  /\ ~Busy
  /\ LET handler == dispatch(DlqRoutes, "DELETE", <<"api", "dlq", segment>>)
         request == IF segment = "clear" THEN "DELETE /api/dlq/clear"
                    ELSE "DELETE /api/dlq/<uuid>"
     IN
     IF handler = "deleteJob"
     THEN LET r == removeById(dlq, jobOf(segment)) IN
          /\ dlq' = r.dlq
          /\ lastOp' = Op(request, jobOf(segment), IF r.ret THEN "200" ELSE "404", 0)
     ELSE IF handler = "clearDlq"
     THEN /\ dlq' = <<>>
          /\ lastOp' = Op(request, jobOf(segment), "200", Len(dlq))
     ELSE /\ dlq' = dlq
          /\ lastOp' = Op(request, jobOf(segment), "404", 0)
  /\ UNCHANGED <<queueVars, callerVars, returned, up, registry, files, attempt, timer, disk, persisted, writable, producer, maxRetries>>

\* DELETE /api/videos/:id: unlink the file, then validateAndCleanup
deleteVideo(path) ==
  /\ ~Busy
  /\ path \in files
  /\ files' = files \ {path}
  /\ disk' = unlinkSaved(disk, path)
  /\ registry' = validateAndCleanup(registry, files').registry
  /\ persisted' = IF validateAndCleanup(registry, files').ret > 0
                  THEN saveToFile(persisted, registry', writable)
                  ELSE persisted
  /\ UNCHANGED <<queueVars, callerVars, returned, lastOp, up, dlq, attempt, timer, writable, producer, maxRetries>>

\* a saved file is removed from the upload directory outside the service
ManualDelete(path) ==
  /\ ~Busy
  /\ path \in files
  /\ files' = files \ {path}
  /\ disk' = unlinkSaved(disk, path)
  /\ UNCHANGED <<queueVars, callerVars, returned, lastOp, up, registry, dlq, attempt, timer, persisted, writable, producer, maxRetries>>

\* POST /api/registry/cleanup
cleanupRegistry ==
  /\ ~Busy
  /\ validateAndCleanup(registry, files).ret > 0
  /\ registry' = validateAndCleanup(registry, files).registry
  /\ persisted' = saveToFile(persisted, registry', writable)
  /\ UNCHANGED <<queueVars, callerVars, returned, lastOp, up, files, dlq, attempt, timer, disk, writable, producer, maxRetries>>

\* DELETE /api/registry: registry.clear()
clearRegistry ==
  /\ ~Busy
  /\ registry # <<>>
  /\ registry' = <<>>
  /\ persisted' = saveToFile(persisted, registry', writable)
  /\ UNCHANGED <<queueVars, callerVars, returned, lastOp, up, files, dlq, attempt, timer, disk, writable, producer, maxRetries>>

\* ------------------------------------------------------ producer thread
\* MAX_RETRIES of the producer
MAX_RETRIES_PRODUCER == 3

\* allVideos: the discovered files, by index; their names, chunks and hash
VideoFiles == 1..NumFiles
filenameOf(f) == <<"a.mp4", "b.mp4", "c.mp4", "d.mp4">>[f]
chunksOf(f) == [i \in 1..f |-> <<i>>]
hashOf(f) == md5(concat(chunksOf(f)))

\* what the callback of client.uploadVideo is called with: a transport error
\* or one of the responses of the server
TransportError == [err |-> TRUE, response |-> NoResponse]
ServerAnswers ==
  { [err |-> FALSE, response |-> r] :
      r \in { Response(TRUE, "queued", "pending", FALSE),
              Response(FALSE, "queue_full", "", TRUE),
              Response(FALSE, "integrity", "", FALSE),
              Response(FALSE, "duplicate", "", FALSE) } }
    \cup {TransportError}

\* the object given to stream.write: filename, data, chunk_number, is_last,
\* producer_id and md5_hash; it has no metadata property, so the server
\* takes it for a data chunk (kind)
streamChunk(f, data, chunkNum, isLast) ==
  [kind |-> "data", metadata |-> NoMetadata, data |-> data, chunk_number |-> chunkNum,
   is_last |-> isLast, filename |-> filenameOf(f), producer_id |-> 1,
   md5_hash |-> hashOf(f)]

\* mutant of producerDelay: the same delay before every retry
producerDelay_const(k) == 1000

\* delay = Math.pow(2, attempt - 1) * 1000
producerDelay(k) == 2 ^ (k - 1) * 1000

\* the log entry of the running attempt gets outcome o / one more message
EndAttempt(p, o) == [p EXCEPT !.log[Len(p.log)].outcome = o]
Written(p, m) == [p EXCEPT !.log[Len(p.log)].msgs = Append(@, m)]

\* for (const videoPath of allVideos): the next file; its hash and metadata
\* are computed, the retry loop starts with attempt 1
ProducerNextFile ==
  /\ producer.pc = "next"
  /\ producer.file < NumFiles
  /\ producer' = [producer EXCEPT !.file = @ + 1, !.attempt = 1, !.pc = "open"]
  /\ UNCHANGED <<queueVars, callerVars, returned, lastOp, up, registry, files, dlq,
                 attempt, timer, disk, persisted, writable, maxRetries>>

\* calculateFileHash or getVideoMetadata throws: the outer catch logs and the
\* loop continues with the next file
ProducerHashFails ==
  /\ producer.pc = "next"
  /\ producer.file < NumFiles
  /\ producer' = [producer EXCEPT !.file = @ + 1, !.attempt = 0,
                    !.log = Append(@, [file |-> producer.file + 1, attempt |-> 0,
                                       msgs |-> <<>>, outcome |-> "hash_error",
                                       uploadSuccess |-> FALSE])]
  /\ UNCHANGED <<queueVars, callerVars, returned, lastOp, up, registry, files, dlq,
                 attempt, timer, disk, persisted, writable, maxRetries>>

\* the loop over allVideos is over
ProducerFinish ==
  /\ producer.pc = "next"
  /\ producer.file = NumFiles
  /\ producer' = [producer EXCEPT !.pc = "done"]
  /\ UNCHANGED <<queueVars, callerVars, returned, lastOp, up, registry, files, dlq,
                 attempt, timer, disk, persisted, writable, maxRetries>>

\* client.uploadVideo(...) opens a stream, createFileStream starts reading
ProducerOpen ==
  /\ producer.pc = "open"
  /\ producer' = [producer EXCEPT !.pc = "streaming", !.chunkNum = 0,
                    !.canWrite = TRUE, !.paused = FALSE,
                    !.log = Append(@, [file |-> producer.file, attempt |-> producer.attempt,
                                       msgs |-> <<>>, outcome |-> "open",
                                       uploadSuccess |-> FALSE])]
  /\ UNCHANGED <<queueVars, callerVars, returned, lastOp, up, registry, files, dlq,
                 attempt, timer, disk, persisted, writable, maxRetries>>

\* mutant of ProducerWrite: the file stream is not paused when the channel
\* cannot accept more data
ProducerWrite_noPause(canWrite) ==
  /\ producer.pc = "streaming"
  /\ producer.chunkNum < Len(chunksOf(producer.file))
  /\ LET n == producer.chunkNum + 1 IN
     producer' = [Written(producer, streamChunk(producer.file, chunksOf(producer.file)[n], n, FALSE))
                    EXCEPT !.chunkNum = n, !.canWrite = canWrite]
  /\ UNCHANGED <<queueVars, callerVars, returned, lastOp, up, registry, files, dlq,
                 attempt, timer, disk, persisted, writable, maxRetries>>

\* fileStream.on('data'), emitted while the file stream flows: the chunk is
\* written to the stream; when stream.write returns false the file stream is
\* paused and a listener for 'drain' is registered
ProducerWrite(canWrite) ==
  /\ producer.pc = "streaming"
  /\ ~producer.paused
  /\ producer.chunkNum < Len(chunksOf(producer.file))
  /\ LET n == producer.chunkNum + 1 IN
     producer' = [Written(producer, streamChunk(producer.file, chunksOf(producer.file)[n], n, FALSE))
                    EXCEPT !.chunkNum = n, !.canWrite = canWrite, !.paused = ~canWrite]
  /\ UNCHANGED <<queueVars, callerVars, returned, lastOp, up, registry, files, dlq,
                 attempt, timer, disk, persisted, writable, maxRetries>>

\* the stream emits 'drain': the listener resumes the file stream
ProducerDrain ==
  /\ producer.pc = "streaming"
  /\ ~producer.canWrite
  /\ producer' = [producer EXCEPT !.canWrite = TRUE, !.paused = FALSE]
  /\ UNCHANGED <<queueVars, callerVars, returned, lastOp, up, registry, files, dlq,
                 attempt, timer, disk, persisted, writable, maxRetries>>

\* mutant of ProducerEnd: the closing chunk repeats the number of the last
\* data chunk
ProducerEnd_sameNumber ==
  /\ producer.pc = "streaming"
  /\ ~producer.paused
  /\ producer.chunkNum = Len(chunksOf(producer.file))
  /\ producer' = [Written(producer, streamChunk(producer.file, <<>>, producer.chunkNum, TRUE))
                    EXCEPT !.pc = "awaiting"]
  /\ UNCHANGED <<queueVars, callerVars, returned, lastOp, up, registry, files, dlq,
                 attempt, timer, disk, persisted, writable, maxRetries>>

\* fileStream.on('end'), emitted once the flowing file stream has delivered
\* every chunk: the empty chunk with is_last is written, stream.end()
ProducerEnd ==
  /\ producer.pc = "streaming"
  /\ ~producer.paused
  /\ producer.chunkNum = Len(chunksOf(producer.file))
  /\ producer' = [Written(producer, streamChunk(producer.file, <<>>, producer.chunkNum + 1, TRUE))
                    EXCEPT !.pc = "awaiting"]
  /\ UNCHANGED <<queueVars, callerVars, returned, lastOp, up, registry, files, dlq,
                 attempt, timer, disk, persisted, writable, maxRetries>>

\* fileStream.on('error') (or createFileStream throws): stream.end() and
\* reject(err); the catch of the retry loop breaks, the file is skipped
ProducerReadError ==
  /\ producer.pc = "streaming"
  /\ producer' = [EndAttempt(producer, "read_error") EXCEPT !.pc = "next"]
  /\ UNCHANGED <<queueVars, callerVars, returned, lastOp, up, registry, files, dlq,
                 attempt, timer, disk, persisted, writable, maxRetries>>

\* mutant of ProducerResponse: every failure is retried like a full queue
ProducerResponse_retryAll(ans) ==
  /\ producer.pc = "awaiting"
  /\ LET p == EndAttempt(producer, IF ans.err THEN "error" ELSE ans.response.message) IN
     producer' =
       IF ans.err \/ ~ans.response.success
       THEN IF producer.attempt < MAX_RETRIES_PRODUCER
            THEN [p EXCEPT !.pc = "sleeping", !.delay = producerDelay(producer.attempt)]
            ELSE [p EXCEPT !.pc = "next"]
       ELSE [p EXCEPT !.pc = "next"]
  /\ UNCHANGED <<queueVars, callerVars, returned, lastOp, up, registry, files, dlq,
                 attempt, timer, disk, persisted, writable, maxRetries>>

\* the callback of client.uploadVideo: an error rejects and ends the retry
\* loop (break); queue_full rejects with QUEUE_FULL, which is retried after
\* sleep(delay) while attempt < MAX_RETRIES and given up after; every other
\* response resolves (uploadSuccess = true, break)
ProducerResponse(ans) ==
  /\ producer.pc = "awaiting"
  /\ LET p == EndAttempt(producer, IF ans.err THEN "error" ELSE ans.response.message) IN
     producer' =
       IF ans.err THEN [p EXCEPT !.pc = "next"]
       ELSE IF ans.response.queue_full
            THEN IF producer.attempt < MAX_RETRIES_PRODUCER
                 THEN [p EXCEPT !.pc = "sleeping", !.delay = producerDelay(producer.attempt)]
                 ELSE [p EXCEPT !.pc = "next"]
            ELSE [p EXCEPT !.pc = "next", !.log[Len(p.log)].uploadSuccess = TRUE]
  /\ UNCHANGED <<queueVars, callerVars, returned, lastOp, up, registry, files, dlq,
                 attempt, timer, disk, persisted, writable, maxRetries>>

\* sleep(delay) resolves: attempt++
ProducerWake ==
  /\ producer.pc = "sleeping"
  /\ producer' = [producer EXCEPT !.pc = "open", !.attempt = @ + 1, !.delay = 0]
  /\ UNCHANGED <<queueVars, callerVars, returned, lastOp, up, registry, files, dlq,
                 attempt, timer, disk, persisted, writable, maxRetries>>

\* one producer thread over its discovered files, the server answering each
\* stream in any of its ways
NextProducer ==
  \/ ProducerNextFile
  \/ ProducerHashFails
  \/ ProducerFinish
  \/ ProducerOpen
  \/ \E canWrite \in BOOLEAN : ProducerWrite(canWrite)
  \/ ProducerDrain
  \/ ProducerEnd
  \/ ProducerReadError
  \/ \E ans \in ServerAnswers : ProducerResponse(ans)
  \/ ProducerWake

SpecProducer == Init /\ [][NextProducer]_vars

\* scheduling: a flowing file stream emits its next 'data' or its 'end', and
\* a channel that refused data emits 'drain' once its buffer is flushed
FairProducer ==
  /\ SpecProducer
  /\ WF_vars(\E canWrite \in BOOLEAN : ProducerWrite(canWrite))
  /\ WF_vars(ProducerEnd)
  /\ WF_vars(ProducerDrain)

\* ------------------------------------------- VideoRegistry, call by call
\* the hashes and paths given to the registry by the calls of SpecRegistry
RegistryHashes == {md5(<<1>>), md5(<<1, 2>>)}
RegistryPaths == { generateUniqueFilename(id, "a.mp4") : id \in 1..2 }

\* registry.isDuplicate(hash); lastOp records the result and the hash
RegIsDuplicate(hash) ==
  /\ ~Busy
  /\ LET r == isDuplicate(registry, files, hash) IN
     /\ registry' = r.registry
     /\ persisted' = IF r.registry # registry
                     THEN saveToFile(persisted, r.registry, writable)
                     ELSE persisted
     /\ lastOp' = Op("isDuplicate", 0, IF r.ret THEN "true" ELSE "false", hash)
  /\ UNCHANGED <<queueVars, callerVars, returned, up, files, dlq, attempt, timer,
                 disk, writable, producer, maxRetries>>

\* registry.register(hash, filename, path, producerId)
RegRegister(hash, path) ==
  /\ ~Busy
  /\ registry' = register(registry, hash, "a.mp4", path, 1)
  /\ persisted' = saveToFile(persisted, registry', writable)
  /\ lastOp' = Op("register", 0, "", hash)
  /\ UNCHANGED <<queueVars, callerVars, returned, up, files, dlq, attempt, timer,
                 disk, writable, producer, maxRetries>>

\* registry.updatePath(hash, path)
RegUpdatePath(hash, path) ==
  /\ ~Busy
  /\ registry' = updatePath(registry, hash, path)
  /\ persisted' = IF hash \in DOMAIN registry
                  THEN saveToFile(persisted, registry', writable)
                  ELSE persisted
  /\ lastOp' = Op("updatePath", 0, "", hash)
  /\ UNCHANGED <<queueVars, callerVars, returned, up, files, dlq, attempt, timer,
                 disk, writable, producer, maxRetries>>

\* registry.remove(hash)
RegRemove(hash) ==
  /\ ~Busy
  /\ LET r == remove(registry, hash) IN
     /\ registry' = r.registry
     /\ persisted' = IF r.ret THEN saveToFile(persisted, r.registry, writable)
                     ELSE persisted
     /\ lastOp' = Op("remove", 0, IF r.ret THEN "true" ELSE "false", hash)
  /\ UNCHANGED <<queueVars, callerVars, returned, up, files, dlq, attempt, timer,
                 disk, writable, producer, maxRetries>>

\* registry.clear()
RegClear ==
  /\ ~Busy
  /\ registry' = <<>>
  /\ persisted' = saveToFile(persisted, registry', writable)
  /\ lastOp' = Op("clear", 0, "", 0)
  /\ UNCHANGED <<queueVars, callerVars, returned, up, files, dlq, attempt, timer,
                 disk, writable, producer, maxRetries>>

\* registry.validateAndCleanup()
RegValidateAndCleanup ==
  /\ ~Busy
  /\ LET r == validateAndCleanup(registry, files) IN
     /\ registry' = r.registry
     /\ persisted' = IF r.ret > 0 THEN saveToFile(persisted, r.registry, writable)
                     ELSE persisted
     /\ lastOp' = Op("validateAndCleanup", 0, "", r.ret)
  /\ UNCHANGED <<queueVars, callerVars, returned, up, files, dlq, attempt, timer,
                 disk, writable, producer, maxRetries>>

\* a file appears in the upload directory
FileAppears(path) ==
  /\ ~Busy
  /\ path \notin files
  /\ files' = files \cup {path}
  /\ disk' = writeFile(disk, [path |-> path, ext |-> ""], Len(<<1, 2>>))
  /\ UNCHANGED <<queueVars, callerVars, returned, lastOp, up, registry, dlq, attempt,
                 timer, persisted, writable, producer, maxRetries>>

\* the registry file becomes unwritable (disk full, read-only directory) or
\* writable again
DiskFault ==
  /\ writable' = ~writable
  /\ UNCHANGED <<queueVars, callerVars, returned, lastOp, up, registry, files, dlq,
                 attempt, timer, disk, persisted, producer, maxRetries>>

\* the registry under every sequence of calls of its public methods, with
\* files that appear in and disappear from the upload directory and a
\* registry file whose writes may fail
NextRegistry ==
  \/ \E hash \in RegistryHashes : RegIsDuplicate(hash)
  \/ \E hash \in RegistryHashes : \E path \in RegistryPaths \cup {Pending} : RegRegister(hash, path)
  \/ \E hash \in RegistryHashes : \E path \in RegistryPaths : RegUpdatePath(hash, path)
  \/ \E hash \in RegistryHashes : RegRemove(hash)
  \/ RegClear
  \/ RegValidateAndCleanup
  \/ \E path \in RegistryPaths : FileAppears(path)
  \/ \E path \in files : ManualDelete(path)
  \/ DiskFault

SpecRegistry == Init /\ [][NextRegistry]_vars

\* the upload protocol under every stream of messages, with a worker pool
\* whose saves succeed and files that may disappear from the upload directory
NextUpload ==
  \/ \E c \in OneCall : UploadOpen(c)
  \/ \E c \in OneCall : \E chunk \in ChunkMsgs : UploadData(c, chunk)
  \/ \E c \in OneCall : UploadEnd(c)
  \/ \E c \in OneCall : UploadError(c)
  \/ \E w \in Workers : WorkerResume(w)
  \/ \E w \in Workers : SaveSucceeds(w)
  \/ \E path \in files : ManualDelete(path)

SpecUpload == Init /\ [][NextUpload]_vars

\* the messages of the streams of SpecRespond: metadata with or without a
\* hash, and one-byte data chunks
RespondMsgs ==
  { m \in ChunkMsgs : m.kind # "empty" /\ (m.kind = "data" => m.data # <<>>) }

\* one upload stream with every way its end handler can return, the catch
\* block included
NextRespond ==
  \/ \E c \in OneCall : UploadOpen(c)
  \/ \E c \in OneCall : \E chunk \in RespondMsgs : UploadData(c, chunk)
  \/ \E c \in OneCall : UploadEnd(c)
  \/ \E c \in OneCall : UploadEndThrows(c)
  \/ \E c \in OneCall : UploadError(c)
  \/ \E w \in Workers : WorkerResume(w)
  \/ \E w \in Workers : SaveSucceeds(w)

SpecRespond == Init /\ [][NextRespond]_vars

\* the messages call c may receive next in Spec: every producer sends the
\* file <<1, 2>> one byte per chunk and declares its hash in the metadata
PipelineMsgs(c) ==
  { m \in ChunkMsgs :
      /\ m.kind = "metadata" => m.metadata.md5Hash # NoHash
      /\ m.kind = "data" => m.data = <<Len(up[c].chunks) + 1>>
      /\ m.kind # "empty" }

\* the whole server: uploads, worker pool with failures and retries, the
\* dead-letter queue and the administrative endpoints; SpecWorker, SpecDlq
\* and SpecAdmin below are the parts of it the properties are checked on
Next ==
  \/ \E c \in OneCall : UploadOpen(c)
  \/ \E c \in OneCall : \E chunk \in PipelineMsgs(c) : UploadData(c, chunk)
  \/ \E c \in OneCall : UploadEnd(c)
  \/ \E c \in OneCall : UploadError(c)
  \/ \E w \in Workers : WorkerResume(w)
  \/ \E w \in Workers : SaveSucceeds(w)
  \/ \E w \in Workers : SaveFails(w)
  \/ \E w \in Workers : BackoffDone(w)
  \/ Shutdown
  \/ \E id \in 1..MaxJobs : retryJob(id)
  \/ \E id \in 1..MaxJobs : deleteJob(id)
  \/ clearDlq
  \/ \E path \in files : deleteVideo(path)
  \/ \E path \in files : ManualDelete(path)
  \/ cleanupRegistry
  \/ clearRegistry

Spec == Init /\ [][Next]_vars

\* concurrent upload calls of producers that all send the same file and
\* declare its hash, with a worker pool whose saves may fail
NextRace ==
  \/ \E c \in Calls : UploadOpen(c)
  \/ \E c \in Calls : \E chunk \in PipelineMsgs(c) : UploadData(c, chunk)
  \/ \E c \in Calls : up[c].expectedHash # NoHash /\ UploadEnd(c)
  \/ \E w \in Workers : WorkerResume(w)
  \/ \E w \in Workers : SaveSucceeds(w)
  \/ \E w \in Workers : SaveFails(w)
  \/ \E w \in Workers : BackoffDone(w)

SpecRace == Init /\ [][NextRace]_vars

\* the file every producer of SpecWorker uploads
TheFile == <<1, 2>>

\* the messages call c may receive next in SpecWorker: one metadata message
\* (with or without a hash) and then the file, one byte per chunk
WorkerMsgs(c) ==
  { m \in ChunkMsgs :
      /\ m.kind = "metadata" => up[c].filename = "" /\ up[c].chunks = <<>>
      /\ m.kind = "data" => up[c].filename # "" /\ m.data = <<Len(up[c].chunks) + 1>>
      /\ m.kind # "empty" }

\* the worker pool fed by complete uploads: saves that succeed or fail,
\* backoff, dead-lettering and shutdown
NextWorker ==
  \/ \E c \in OneCall : UploadOpen(c)
  \/ \E c \in OneCall : \E chunk \in WorkerMsgs(c) : UploadData(c, chunk)
  \/ \E c \in OneCall : concat(up[c].chunks) = TheFile /\ UploadEnd(c)
  \/ \E w \in Workers : WorkerResume(w)
  \/ \E w \in Workers : SaveSucceeds(w)
  \/ \E w \in Workers : SaveFails(w)
  \/ \E w \in Workers : BackoffDone(w)
  \/ Shutdown

SpecWorker == Init /\ [][NextWorker]_vars

\* the worker pool under every configured value of DLQ_MAX_RETRIES
SpecRetry == InitRetry /\ [][NextWorker]_vars

\* ------------------- processJobWithRetry with the simulated failure
\* job.filename.includes('fail_me'), on the file names of SpecSimulated
includesFailMe(filename) == filename \in {"fail_me.mp4"}

\* the messages call c may receive next in SpecSimulated: one metadata
\* message naming a.mp4 or fail_me.mp4, no hash, then the file byte by byte
SimulatedMsgs(c) ==
  { [kind |-> "metadata",
     metadata |-> [filename |-> f, producerId |-> 1, md5Hash |-> NoHash],
     data |-> <<>>] : f \in IF up[c].filename = "" /\ up[c].chunks = <<>>
                            THEN {"a.mp4", "fail_me.mp4"} ELSE {} }
    \cup { [kind |-> "data", metadata |-> NoMetadata, data |-> <<Len(up[c].chunks) + 1>>] :
             x \in IF up[c].filename # "" THEN {0} ELSE {} }

\* one attempt of processJobWithRetry: a file name that includes 'fail_me'
\* throws before saveVideo is called; otherwise saveVideo is awaited and
\* resolves with success or not. lastOp records whether saveVideo was called.
ProcessAttempt(w, success) ==
  /\ ~Busy
  /\ pc[w] = "saving"
  /\ IF includesFailMe(held[w].filename)
     THEN /\ lastOp' = Op("simulatedFailure", w, "false", held[w].id)
          /\ AttemptFails(w)
          /\ UNCHANGED <<files, disk, registry, persisted>>
     ELSE /\ lastOp' = Op("saveVideo", w, IF success THEN "true" ELSE "false", held[w].id)
          /\ IF success
             THEN LET job == held[w]
                      filepath == generateUniqueFilename(job.id, job.filename)
                  IN /\ files' = files \cup {filepath}
                     /\ disk' = writeFile(disk, finalPath(job), Len(job.data))
                     /\ registry' = IF job.md5Hash # NoHash
                                    THEN updatePath(registry, job.md5Hash, filepath)
                                    ELSE registry
                     /\ persisted' = IF job.md5Hash # NoHash /\ job.md5Hash \in DOMAIN registry
                                     THEN saveToFile(persisted, registry', writable)
                                     ELSE persisted
                     /\ attempt' = [attempt EXCEPT ![w] = 0]
                     /\ ApplyLoopTop(w)
                     /\ UNCHANGED <<dlq, timer>>
             ELSE /\ AttemptFails(w)
                  /\ UNCHANGED <<files, disk, registry, persisted>>
  /\ UNCHANGED <<maxSize, isShuttingDown, nextId, up, writable, producer, maxRetries>>

\* uploads of a.mp4 and fail_me.mp4 and the worker pool running this
\* processJobWithRetry
NextSimulated ==
  \/ \E c \in OneCall : UploadOpen(c)
  \/ \E c \in OneCall : \E chunk \in SimulatedMsgs(c) : UploadData(c, chunk)
  \/ \E c \in OneCall : concat(up[c].chunks) = TheFile /\ UploadEnd(c)
  \/ \E w \in Workers : WorkerResume(w)
  \/ \E w \in Workers : \E success \in BOOLEAN : ProcessAttempt(w, success)
  \/ \E w \in Workers : BackoffDone(w)

SpecSimulated == Init /\ [][NextSimulated]_vars

\* the worker pool with the endpoints of the dead-letter queue
NextDlq ==
  \/ NextWorker
  \/ \E id \in 1..MaxJobs : retryJob(id)
  \/ \E id \in 1..MaxJobs : deleteJob(id)
  \/ clearDlq

SpecDlq == Init /\ [][NextDlq]_vars

\* the worker pool with the DELETE requests to /api/dlq/ going through the router
NextHttp ==
  \/ NextWorker
  \/ \E segment \in DlqSegments : HttpDeleteDlq(segment)

SpecHttp == Init /\ [][NextHttp]_vars

\* uploads of one file that declare no hash and the worker pool, every save
\* taken step by step through writeFile, validateFile and rename
NextSave ==
  \/ \E c \in OneCall : UploadOpen(c)
  \/ \E c \in OneCall : \E chunk \in WorkerMsgs(c) : UploadData(c, chunk)
  \/ \E c \in OneCall :
       up[c].expectedHash = NoHash /\ concat(up[c].chunks) = TheFile /\ UploadEnd(c)
  \/ \E w \in Workers : WorkerResume(w)
  \/ \E w \in Workers : WriteStart(w)
  \/ \E w \in Workers : \E n \in 0..Len(TheFile) : WriteDone(w, n)
  \/ \E w \in Workers : \E n \in 0..Len(TheFile) : WriteFails(w, n)
  \/ \E w \in Workers : Validate(w)
  \/ \E w \in Workers : Rename(w)
  \/ \E w \in Workers : RenameFails(w)
  \/ \E w \in Workers : BackoffDone(w)

SpecSave == Init /\ [][NextSave]_vars

\* uploads of one file and the worker pool, with the endpoints that delete
\* saved files and clean or clear the registry
NextAdmin ==
  \/ \E c \in OneCall : UploadOpen(c)
  \/ \E c \in OneCall : \E chunk \in PipelineMsgs(c) : UploadData(c, chunk)
  \/ \E c \in OneCall : UploadEnd(c)
  \/ \E w \in Workers : WorkerResume(w)
  \/ \E w \in Workers : SaveSucceeds(w)
  \/ \E w \in Workers : SaveFails(w)
  \/ \E w \in Workers : BackoffDone(w)
  \/ Shutdown
  \/ \E path \in files : deleteVideo(path)
  \/ \E path \in files : ManualDelete(path)
  \/ cleanupRegistry
  \/ clearRegistry

SpecAdmin == Init /\ [][NextAdmin]_vars

\* the worker pool of a server that takes no upload once shutdown is
\* signalled: every accepted job was accepted before the shutdown
NextDrain ==
  \/ \E c \in OneCall : ~isShuttingDown /\ UploadOpen(c)
  \/ \E c \in OneCall : \E chunk \in WorkerMsgs(c) : ~isShuttingDown /\ UploadData(c, chunk)
  \/ \E c \in OneCall : ~isShuttingDown /\ concat(up[c].chunks) = TheFile /\ UploadEnd(c)
  \/ \E w \in Workers : WorkerResume(w)
  \/ \E w \in Workers : SaveSucceeds(w)
  \/ \E w \in Workers : SaveFails(w)
  \/ \E w \in Workers : BackoffDone(w)
  \/ Shutdown

\* NextDrain under the scheduling guarantees of FairWorker
FairDrain ==
  /\ Init /\ [][NextDrain]_vars
  /\ \A w \in Workers : WF_vars(WorkerResume(w))
  /\ \A w \in Workers : WF_vars(SaveSucceeds(w) \/ SaveFails(w))
  /\ \A w \in Workers : WF_vars(BackoffDone(w))

\* scheduling: the continuation of a settled promise runs, a save started by
\* saveVideo settles (with success or failure), and a backoff timer fires
FairWorker ==
  /\ SpecWorker
  /\ \A w \in Workers : WF_vars(WorkerResume(w))
  /\ \A w \in Workers : WF_vars(SaveSucceeds(w) \/ SaveFails(w))
  /\ \A w \in Workers : WF_vars(BackoffDone(w))

\* ===================================================== claims: VideoQueue
Ids(q) == { q[i].id : i \in 1..Len(q) }

Range(f) == { f[i] : i \in DOMAIN f }

\* C1: the number of jobs held in the queue is never greater than its
\* capacity, whatever sequence of enqueue, dequeue, dequeueAsync and shutdown
\* calls has been made.
C1_SizeWithinCapacity == Len(queue) <= maxSize

C1_Witness ==
  /\ maxSize = MaxCapacity
  /\ Len(queue) = maxSize
  /\ lastOp.op = "enqueue"
  /\ lastOp.ret = "false"
  /\ isShuttingDown

\* C2: enqueue returns false if and only if the size of the queue equals the
\* capacity at the moment of the call (lastOp.arg is the size at the call).
C2_FalseIffFull ==
  lastOp.op = "enqueue" => (lastOp.ret = "false" <=> lastOp.arg = maxSize)

C2_Witness ==
  /\ lastOp.op = "enqueue"
  /\ lastOp.ret = "true"
  /\ lastOp.arg = maxSize - 1
  /\ Len(queue) = maxSize

\* C3: an enqueue that returns false changes neither the queued jobs, nor the
\* suspended callers (and their promises), nor the shutdown flag.
C3_RejectedEnqueueNoEffect ==
  [][ (lastOp'.op = "enqueue" /\ lastOp'.ret = "false")
        => UNCHANGED <<queue, waiters, isShuttingDown, pc, held, resolved, returned>> ]_vars

C3_Witness ==
  /\ lastOp.op = "enqueue"
  /\ lastOp.ret = "false"
  /\ Len(queue) = 2
  /\ ~isShuttingDown

\* C4: jobs leave the queue in the order of their successful enqueues: the
\* k-th job handed out is the k-th job accepted, and the queue holds the
\* remaining accepted jobs in acceptance order.
C4_Fifo ==
  /\ \A i \in 1..Len(returned) : returned[i] = i
  /\ \A i \in 1..Len(queue) : queue[i].id = Len(returned) + i

C4_Witness ==
  /\ maxSize = 2
  /\ returned = <<1, 2>>
  /\ lastOp.op = "dequeue"
  /\ lastOp.arg = 2

\* C5: a dequeueAsync call on an empty queue before shutdown suspends; a
\* successful enqueue made while callers are suspended resolves exactly the
\* oldest of them with the new job and leaves the queue as it was; and every
\* accepted job is in exactly one place: in the queue, or handed out once.
C5_OwnedOnce ==
  /\ \A i, j \in 1..Len(returned) : returned[i] = returned[j] => i = j
  /\ Ids(queue) \cap Range(returned) = {}
  /\ Ids(queue) \cup Range(returned) = 1..(nextId - 1)
  /\ Len(queue) = Cardinality(Ids(queue))
  /\ \A w1, w2 \in Workers : (held[w1].id # 0 /\ held[w1].id = held[w2].id) => w1 = w2
  /\ \A w \in Workers : held[w].id # 0 => held[w].id \in Range(returned)

C5_Handoff ==
  /\ (lastOp'.op = "dequeueAsync" /\ queue = <<>> /\ ~isShuttingDown)
       => /\ lastOp'.ret = "wait"
          /\ pc'[lastOp'.who] = "waiting"
          /\ waiters' = Append(waiters, lastOp'.who)
  /\ (lastOp'.op = "enqueue" /\ lastOp'.ret = "true" /\ waiters # <<>>)
       => /\ queue' = queue
          /\ waiters' = Tail(waiters)
          /\ held'[Head(waiters)].id = nextId
          /\ pc'[Head(waiters)] = "resolved"
          /\ resolved'[Head(waiters)] = 1
          /\ \A w \in Workers \ {Head(waiters)} :
               /\ pc'[w] = pc[w]
               /\ held'[w] = held[w]
               /\ resolved'[w] = resolved[w]

C5_ExclusiveOwnership == []C5_OwnedOnce /\ [][C5_Handoff]_vars

C5_Witness ==
  /\ lastOp.op = "enqueue"
  /\ lastOp.ret = "true"
  /\ Len(waiters) = 1
  /\ \E w \in Workers : pc[w] = "resolved" /\ held[w].id = nextId - 1
  /\ queue = <<>>

\* C6: shutdown() releases every suspended dequeueAsync caller with the
\* sentinel, each exactly once: none stays suspended, none is resolved twice,
\* none receives a job.
C6_Release ==
  lastOp'.op = "shutdown"
    => /\ waiters' = <<>>
       /\ \A w \in Workers :
            IF pc[w] = "waiting"
            THEN pc'[w] = "resolved" /\ held'[w] = Null /\ resolved'[w] = 1
            ELSE pc'[w] = pc[w] /\ held'[w] = held[w] /\ resolved'[w] = resolved[w]

C6_ShutdownReleasesAll ==
  [](\A w \in Workers : resolved[w] <= 1) /\ [][C6_Release]_vars

C6_Witness ==
  /\ lastOp.op = "shutdown"
  /\ lastOp.arg = NumWorkers
  /\ \A w \in Workers : pc[w] = "resolved" /\ held[w] = Null /\ resolved[w] = 1

\* C7: once shutdown() has been called no dequeueAsync call suspends: it
\* returns at once, a job while the queue holds one (also a job enqueued after
\* the shutdown) and the sentinel when the queue is empty.
C7_NoSuspendAfterShutdown ==
  isShuttingDown =>
    /\ waiters = <<>>
    /\ \A w \in Workers : pc[w] # "waiting"
    /\ lastOp.op = "dequeueAsync" =>
         /\ lastOp.ret \in {"job", "null"}
         /\ lastOp.ret = "job" => lastOp.arg # 0 /\ held[lastOp.who].id = lastOp.arg
         /\ lastOp.ret = "null" => queue = <<>> /\ held[lastOp.who] = Null

C7_Witness ==
  /\ isShuttingDown
  /\ lastOp.op = "dequeueAsync"
  /\ lastOp.ret = "null"
  /\ Len(returned) > 0

\* ======================================================= claims: uploads
\* the step in which call c handles the end of its stream
UploadEndStep(c) == up[c].st = "open" /\ up'[c].st = "done"

\* the bytes of the payloads ps one after the other, by position
Offset(ps, k) ==
  LET RECURSIVE Sum(_)
      Sum(i) == IF i = 0 THEN 0 ELSE Sum(i - 1) + Len(ps[i])
  IN Sum(k - 1)

IsJoin(ps, data) ==
  /\ Len(data) = Offset(ps, Len(ps) + 1)
  /\ \A k \in 1..Len(ps) : \A i \in 1..Len(ps[k]) : data[Offset(ps, k) + i] = ps[k][i]

\* the payloads over Bytes that are the join of ps
JoinOf(ps) ==
  CHOOSE data \in UNION { [1..n -> Bytes] : n \in 0..Offset(ps, Len(ps) + 1) } :
    IsJoin(ps, data)

\* the job with identifier id, wherever the queue put it
JobsHeldOrQueued(q, h) ==
  { q[i] : i \in 1..Len(q) } \cup { h[w] : w \in DOMAIN h }

\* hash h has an entry that is a placeholder or whose file exists
Registered(h) ==
  /\ h \in DOMAIN registry
  /\ registry[h].path = Pending \/ registry[h].path \in files

\* C8: when the declared hash differs from the hash of the reassembled
\* payload, the response has success = false and queue_full = false, no job
\* is enqueued or handed to a worker, and the registry is unchanged.
C8_Step(c) ==
  (/\ UploadEndStep(c)
   /\ up[c].expectedHash # NoHash
   /\ md5(JoinOf(up[c].arrived)) # up[c].expectedHash)
    => /\ up'[c].response.success = FALSE
       /\ up'[c].response.queue_full = FALSE
       /\ UNCHANGED <<queue, waiters, nextId, pc, held, resolved, returned, registry>>

C8_IntegrityRejection == [][\A c \in Calls : C8_Step(c)]_vars

C8_Witness ==
  \E c \in Calls :
    /\ up[c].st = "done"
    /\ up[c].response.message = "integrity"
    /\ registry # <<>>
    /\ queue # <<>>

\* C9: the payload of the job built from an upload is the join of the data
\* chunks of its stream in arrival order, and an upload whose declared hash
\* is the hash of that join, whose hash is not registered and which finds
\* free capacity is answered success = true.
C9_Step(c) ==
  UploadEndStep(c) =>
    /\ up'[c].response.success =>
         /\ nextId' = nextId + 1
         /\ \E job \in JobsHeldOrQueued(queue', held') :
              /\ job.id = nextId
              /\ IsJoin(up[c].arrived, job.data)
              /\ job.filename = up[c].filename
              /\ job.producerId = up[c].producerId
              /\ job.md5Hash = up[c].expectedHash
    /\ (/\ up[c].expectedHash # NoHash
        /\ md5(JoinOf(up[c].arrived)) = up[c].expectedHash
        /\ ~Registered(up[c].expectedHash)
        /\ Len(queue) < maxSize)
         => up'[c].response = Response(TRUE, "queued", "pending", FALSE)

C9_ReassemblyInOrder == [][\A c \in Calls : C9_Step(c)]_vars

C9_Witness ==
  \E c \in Calls :
    /\ up[c].st = "done"
    /\ up[c].response.success
    /\ \E job \in JobsHeldOrQueued(queue, held) :
         /\ job.id = nextId - 1
         /\ job.data = <<1, 2>>
         /\ job.md5Hash = md5(<<1, 2>>)

\* C10: an upload that declares a registered hash (placeholder entry, or
\* entry whose file exists) is answered success = false and leaves the queue
\* and the workers as they were.
C10_Step(c) ==
  (/\ UploadEndStep(c)
   /\ up[c].expectedHash # NoHash
   /\ Registered(up[c].expectedHash))
    => /\ up'[c].response.success = FALSE
       /\ UNCHANGED <<queue, waiters, nextId, pc, held, resolved, returned>>

C10_DuplicateRejected == [][\A c \in Calls : C10_Step(c)]_vars

C10_Witness ==
  \E c \in Calls :
    /\ up[c].st = "done"
    /\ up[c].response.message = "duplicate"
    /\ \E h \in DOMAIN registry : registry[h].path # Pending /\ registry[h].path \in files

\* C11: of the upload calls that declare the same hash and complete
\* concurrently (their end handlers run in either order, with worker steps in
\* between), at most one is accepted; once one is accepted every other is
\* answered success = false without touching the queue, and as a duplicate
\* when its payload matches the hash. (In SpecRace every upload declares the
\* one hash of HashInputs, so the accepted uploads are the identifiers issued.)
C11_AtMostOne == nextId - 1 <= 1

C11_Loser ==
  \A c \in Calls :
    (UploadEndStep(c) /\ up[c].expectedHash # NoHash /\ nextId > 1)
      => /\ up'[c].response.success = FALSE
         /\ up'[c].response.queue_full = FALSE
         /\ UNCHANGED <<queue, waiters, nextId, pc, held, resolved, returned>>
         /\ md5(JoinOf(up[c].arrived)) = up[c].expectedHash
              => up'[c].response.message = "duplicate"

C11_ConcurrentSameHash == []C11_AtMostOne /\ [][C11_Loser]_vars

C11_Witness ==
  \E c1, c2 \in Calls :
    /\ c1 < c2
    /\ up[c1].st = "done" /\ up[c1].response.message = "duplicate"
    /\ up[c2].st = "done" /\ up[c2].response.success
    /\ \E h \in DOMAIN registry : registry[h].path = Pending

\* the upload of call c is valid: no hash declared, or the declared hash is
\* the hash of the payload that arrived and is not registered
ValidUpload(c) ==
  \/ up[c].expectedHash = NoHash
  \/ /\ md5(JoinOf(up[c].arrived)) = up[c].expectedHash
     /\ ~Registered(up[c].expectedHash)

\* C12: when the queue is full at the end of a valid upload (enqueue returns
\* false), the call is answered with an ordinary response carrying
\* success = false and queue_full = true, nothing is enqueued, and the hash
\* of the upload has no entry in the registry afterwards.
C12_Step(c) ==
  (UploadEndStep(c) /\ ValidUpload(c) /\ Len(queue) >= maxSize)
    => /\ up'[c].st = "done"
       /\ up'[c].response.success = FALSE
       /\ up'[c].response.queue_full = TRUE
       /\ UNCHANGED <<queue, waiters, nextId, pc, held, resolved, returned>>
       /\ up[c].expectedHash # NoHash => up[c].expectedHash \notin DOMAIN registry'

C12_QueueFullResponse == [][\A c \in Calls : C12_Step(c)]_vars

C12_Witness ==
  \E c \in Calls :
    /\ up[c].st = "done"
    /\ up[c].response.queue_full
    /\ maxSize > 0
    /\ Len(queue) = maxSize
    /\ \A i \in 1..Len(queue) : queue[i].md5Hash = NoHash
    /\ registry = <<>>

\* C13: when enqueue returns true for an upload (a job identifier is
\* issued), the response has success = true, queue_full = false and a
\* non-empty video_id, and if the upload declared a hash the registry holds
\* an entry for it with the placeholder path when the response is sent.
C13_Step(c) ==
  (UploadEndStep(c) /\ nextId' = nextId + 1)
    => /\ up'[c].response.success = TRUE
       /\ up'[c].response.queue_full = FALSE
       /\ up'[c].response.video_id # ""
       /\ up[c].expectedHash # NoHash
            => /\ up[c].expectedHash \in DOMAIN registry'
               /\ registry'[up[c].expectedHash].path = Pending
               /\ registry'[up[c].expectedHash].filename = up[c].filename
               /\ registry'[up[c].expectedHash].producerId = up[c].producerId

C13_PlaceholderRegistered == [][\A c \in Calls : C13_Step(c)]_vars

C13_Witness ==
  \E c \in Calls :
    /\ up[c].st = "done"
    /\ up[c].response = Response(TRUE, "queued", "pending", FALSE)
    /\ md5(TheFile) \in DOMAIN registry
    /\ registry[md5(TheFile)].path = Pending
    /\ \E job \in JobsHeldOrQueued(queue, held) :
         job.id = nextId - 1 /\ job.md5Hash = md5(TheFile)

\* ======================================================= claims: workers
\* worker w is inside processJobWithRetry
Processing(w) == pc[w] \in {"saving", "backoff"}

\* the step in which the save awaited by worker w settles
SaveSettles(w) == pc[w] = "saving" /\ pc'[w] # "saving"

\* the file of the job held by worker w
FileOf(w) == generateUniqueFilename(held[w].id, held[w].filename)

\* the step in which the save awaited by worker w settles with a failure
SaveFailed(w) == SaveSettles(w) /\ FileOf(w) \notin files'

\* the k-th backoff delay: the first delay, doubled after every failure
RECURSIVE DelayAfter(_)
DelayAfter(k) == IF k <= 1 THEN INITIAL_DELAY_MS ELSE 2 * DelayAfter(k - 1)

\* C14: attempts are numbered 1, 2, ... MAX_RETRIES; a failed attempt
\* k < MAX_RETRIES is followed by a sleep of INITIAL_DELAY_MS * 2^(k-1) and
\* adds nothing to the DLQ; the failed attempt MAX_RETRIES starts no sleep
\* and adds exactly one DLQ entry for the job, with attempts = MAX_RETRIES.
C14_Step(w) ==
  /\ (pc'[w] = "saving" /\ pc[w] # "saving")
       => attempt'[w] = IF pc[w] = "backoff" THEN attempt[w] + 1 ELSE 1
  /\ (Processing(w) /\ Processing(w)') => held'[w] = held[w]
  /\ (pc[w] = "saving" /\ pc'[w] = "saving") => attempt'[w] = attempt[w]
  /\ (SaveFailed(w) /\ attempt[w] < MAX_RETRIES)
       => /\ pc'[w] = "backoff"
          /\ timer'[w] = DelayAfter(attempt[w])
          /\ attempt'[w] = attempt[w]
          /\ dlq' = dlq
  /\ (SaveFailed(w) /\ attempt[w] >= MAX_RETRIES)
       => /\ attempt[w] = MAX_RETRIES
          /\ pc'[w] # "backoff"
          /\ timer'[w] = 0
          /\ Len(dlq') = Len(dlq) + 1
          /\ SubSeq(dlq', 1, Len(dlq)) = dlq
          /\ dlq'[Len(dlq')].job = held[w]
          /\ dlq'[Len(dlq')].attempts = MAX_RETRIES

C14_RetryBackoff ==
  /\ [](\A w \in Workers : Processing(w) => attempt[w] \in 1..MAX_RETRIES)
  /\ [](\A w \in Workers : timer[w] # 0 <=> pc[w] = "backoff")
  /\ [][\A w \in Workers : C14_Step(w)]_vars

C14_Witness ==
  /\ \E i \in 1..Len(dlq) : dlq[i].attempts = 3 /\ dlq[i].job.data = TheFile
  /\ \E w \in Workers : pc[w] = "backoff" /\ attempt[w] = 2 /\ timer[w] = 2000

\* the jobs in the DLQ
DlqJobs == { dlq[i].job : i \in 1..Len(dlq) }

\* the file a job is saved under
FileOfJob(job) == generateUniqueFilename(job.id, job.filename)

\* job identifier id is in the hands of a worker that has not finished it
InHand(id) == \E w \in Workers : pc[w] \in {"resolved", "saving", "backoff"} /\ held[w].id = id

\* C15: every invocation of processJobWithRetry terminates, and it ends in
\* exactly one of two outcomes: the file of the job exists, or the job is in
\* the DLQ. Never both: no dead-lettered job has a file. Never neither: a
\* job handed to a worker and no longer in its hands has one of the two.
C15_OneOutcome ==
  /\ \A job \in DlqJobs : FileOfJob(job) \notin files
  /\ \A w \in Workers : Processing(w) =>
        /\ FileOf(w) \notin files
        /\ held[w] \notin DlqJobs
  /\ \A id \in Range(returned) :
        \/ InHand(id)
        \/ (\E f \in files : f.shortId = id) /\ (\A job \in DlqJobs : job.id # id)
        \/ (\A f \in files : f.shortId # id) /\ (\E job \in DlqJobs : job.id = id)

C15_Terminates ==
  \A w \in Workers : \A id \in 1..MaxJobs :
    (Processing(w) /\ held[w].id = id) ~> ~(Processing(w) /\ held[w].id = id)

C15_TerminatesInOneOutcome == []C15_OneOutcome /\ C15_Terminates

C15_Witness ==
  /\ \A w \in Workers : ~Processing(w) /\ pc[w] # "resolved"
  /\ \E job \in DlqJobs : job.id = 1
  /\ \E f \in files : f.shortId = 2
  /\ Range(returned) = {1, 2}

\* C16: when a save succeeds, the registry entry of the job's hash (if the
\* registry holds one) gets the path of the saved file, the DLQ is left
\* alone, and the invocation is over: the worker makes no further attempt
\* for a job whose file exists.
C16_Step(w) ==
  (SaveSettles(w) /\ FileOf(w) \in files')
    => /\ (held[w].md5Hash # NoHash /\ held[w].md5Hash \in DOMAIN registry)
            => /\ held[w].md5Hash \in DOMAIN registry'
               /\ registry'[held[w].md5Hash].path = FileOf(w)
       /\ dlq' = dlq
       /\ ~(Processing(w)')
       /\ timer'[w] = 0

C16_SuccessPath ==
  /\ [](\A w \in Workers : Processing(w) => FileOf(w) \notin files)
  /\ [][\A w \in Workers : C16_Step(w)]_vars

C16_Witness ==
  /\ md5(TheFile) \in DOMAIN registry
  /\ registry[md5(TheFile)].path \in files
  /\ \A w \in Workers : pc[w] = "waiting"
  /\ dlq = <<>>

\* the step in which worker w dead-letters the job it holds
DeadLetters(w) == SaveFailed(w) /\ Len(dlq') = Len(dlq) + 1

\* C17: dead-lettering a job does not stop the worker or disturb the others:
\* in the same step the worker is back in dequeueAsync (suspended, or
\* resolved with the oldest queued job), unless shutdown was signalled before;
\* the other workers are where they were; and no worker is ever stopped
\* while the queue is not shut down.
C17_Step(w) ==
  DeadLetters(w)
    => /\ ~isShuttingDown =>
            IF queue = <<>>
            THEN pc'[w] = "waiting" /\ waiters' = Append(waiters, w)
            ELSE pc'[w] = "resolved" /\ held'[w] = Head(queue) /\ queue' = Tail(queue)
       /\ \A v \in Workers \ {w} :
            /\ pc'[v] = pc[v]
            /\ held'[v] = held[v]
            /\ attempt'[v] = attempt[v]
            /\ timer'[v] = timer[v]

C17_FailureStopsNoWorker ==
  /\ [](\A w \in Workers : pc[w] = "stopped" => isShuttingDown)
  /\ [][\A w \in Workers : C17_Step(w)]_vars

C17_Witness ==
  /\ ~isShuttingDown
  /\ Len(dlq) = 1
  /\ \A w \in Workers : pc[w] = "saving" /\ held[w].id > dlq[1].job.id

\* C18: a worker leaves its loop only in the continuation of a dequeueAsync
\* call that returned the sentinel.
C18_LeavesOnSentinelOnly ==
  [][\A w \in Workers :
       (pc'[w] = "stopped" /\ pc[w] # "stopped")
         => (pc[w] = "resolved" /\ held[w] = Null)]_vars

\* job identifier id has been persisted or dead-lettered
Settled(id) ==
  \/ \E f \in files : f.shortId = id
  \/ \E job \in DlqJobs : job.id = id

\* C19: every accepted job (every identifier issued by enqueue) is eventually
\* persisted to a file or moved to the DLQ.
C19_AcceptedEventuallySettled ==
  \A id \in 1..MaxJobs : (id < nextId) ~> Settled(id)

\* ================================================ claims: dead-letter queue
\* job identifier id has an entry in the DLQ
InDlq(id) == \E i \in 1..Len(dlq) : dlq[i].job.id = id

\* the step is a call of retryJob (lastOp records its status and job id)
RetryStep == lastOp' # lastOp /\ lastOp'.op = "retryJob"

\* C20: re-queuing a DLQ entry while the queue is full is answered with a
\* failure (503) and changes neither store: the DLQ holds the same entries
\* (same job, error and attempt count, same order) and the queue, the
\* suspended workers and the identifiers issued are as before. A retry that
\* reports failure never changes either store.
C20_Step ==
  /\ (RetryStep /\ InDlq(lastOp'.arg) /\ Len(queue) >= maxSize)
       => /\ lastOp'.ret = "503"
          /\ dlq' = dlq
          /\ UNCHANGED <<queue, waiters, nextId, pc, held, resolved, returned>>
  /\ (RetryStep /\ lastOp'.ret # "200")
       => /\ dlq' = dlq
          /\ UNCHANGED <<queue, waiters, nextId, pc, held, resolved, returned>>

C20_RetryOnFullQueue == [][C20_Step]_vars

C20_Witness ==
  /\ lastOp.op = "retryJob"
  /\ lastOp.ret = "503"
  /\ InDlq(lastOp.arg)
  /\ maxSize > 0
  /\ Len(queue) = maxSize
  /\ \E i \in 1..Len(dlq) : dlq[i].attempts = MAX_RETRIES /\ dlq[i].error = "save failed"

\* the copies of a job (same filename, payload, producer id and hash) that the
\* queue, the workers and the DLQ hold
SameJob(a, b) ==
  /\ a.filename = b.filename
  /\ a.data = b.data
  /\ a.producerId = b.producerId
  /\ a.md5Hash = b.md5Hash

\* the identifiers of the jobs in the queue or in a worker's hands
LiveIds ==
  { queue[i].id : i \in 1..Len(queue) }
    \cup { held[w].id : w \in { x \in Workers : pc[x] \in {"resolved", "saving", "backoff"} } }

\* C21: re-queuing a DLQ entry while the queue has free capacity is answered
\* with success, removes exactly that entry from the DLQ (the others keep their
\* order) and makes one job with the same filename, payload, producer id and
\* hash dequeue-able: it is appended to the queue or, when a worker is
\* suspended, handed to the worker that waited longest. At every time no job
\* is both in the DLQ and in the queue or a worker's hands, no two DLQ entries
\* carry one job id, and a re-queue request for an id that was re-queued
\* finds no entry (404), so no entry is enqueued twice.
C21_Step ==
  /\ (RetryStep /\ InDlq(lastOp'.arg) /\ Len(queue) < maxSize)
       => /\ lastOp'.ret = "200"
          /\ \E i \in 1..Len(dlq) :
               /\ dlq[i].job.id = lastOp'.arg
               /\ dlq' = SubSeq(dlq, 1, i - 1) \o SubSeq(dlq, i + 1, Len(dlq))
               /\ nextId' = nextId + 1
               /\ IF waiters = <<>>
                  THEN /\ Len(queue') = Len(queue) + 1
                       /\ SubSeq(queue', 1, Len(queue)) = queue
                       /\ queue'[Len(queue')].id = nextId
                       /\ SameJob(queue'[Len(queue')], dlq[i].job)
                       /\ UNCHANGED <<pc, held>>
                  ELSE /\ queue' = queue
                       /\ waiters' = Tail(waiters)
                       /\ pc'[Head(waiters)] = "resolved"
                       /\ held'[Head(waiters)].id = nextId
                       /\ SameJob(held'[Head(waiters)], dlq[i].job)
                       /\ \A w \in Workers \ {Head(waiters)} : pc'[w] = pc[w] /\ held'[w] = held[w]
  /\ (RetryStep /\ lastOp'.ret = "200") => ~(\E i \in 1..Len(dlq') : dlq'[i].job.id = lastOp'.arg)
  /\ (RetryStep /\ ~InDlq(lastOp'.arg)) => (lastOp'.ret = "404" /\ UNCHANGED <<queue, dlq, nextId, pc, held>>)

C21_NeverInBoth ==
  /\ \A i \in 1..Len(dlq) : dlq[i].job.id \notin LiveIds
  /\ \A i, j \in 1..Len(dlq) : dlq[i].job.id = dlq[j].job.id => i = j

C21_RequeueMovesJob == []C21_NeverInBoth /\ [][C21_Step]_vars

C21_Witness ==
  /\ lastOp.op = "retryJob"
  /\ lastOp.ret = "200"
  /\ ~InDlq(lastOp.arg)
  /\ nextId - 1 \in LiveIds
  /\ Len(dlq) > 0

\* the directory entries under a final (non-temporary) name
FinalEntries(d) == { e \in DOMAIN d : e.ext = "" }

\* worker w is inside saveVideo
InSave(w) == pc[w] \in {"saving", "writing", "written", "validated"}

\* C22: a reader listing the upload directory sees under a final filename
\* either no file or the complete payload. A final name appears only through
\* the rename by the worker whose job it names, after the temporary file was
\* found to hold exactly the payload's byte count; the file that appears has
\* that byte count, and no step changes the byte count of a file under a
\* final name.
C22_Complete ==
  \A e \in FinalEntries(disk) : disk[e] = Len(TheFile)

C22_Step ==
  /\ \A e \in FinalEntries(disk') \ FinalEntries(disk) :
       \E w \in Workers :
         /\ pc[w] = "validated"
         /\ e = finalPath(held[w])
         /\ tempPath(e) \in DOMAIN disk
         /\ disk[tempPath(e)] = Len(held[w].data)
         /\ disk'[e] = Len(held[w].data)
         /\ tempPath(e) \notin DOMAIN disk'
  /\ \A e \in FinalEntries(disk') \cap FinalEntries(disk) : disk'[e] = disk[e]

C22_NoPartialFinal == []C22_Complete /\ [][C22_Step]_vars

C22_Witness ==
  /\ \E e \in FinalEntries(disk) : disk[e] = Len(TheFile)
  /\ \E w \in Workers :
       /\ pc[w] = "written"
       /\ disk[tempPath(finalPath(held[w]))] < Len(held[w].data)

\* the step settles an attempt of worker w with failure: saveVideo returned
\* an error result and the worker backs off or dead-letters the job
AttemptFailed(w) ==
  /\ InSave(w)
  /\ \/ pc'[w] = "backoff"
     \/ Len(dlq') = Len(dlq) + 1 /\ dlq'[Len(dlq')].job = held[w]

\* C23: when the write to the temporary path, the verification or the rename
\* fails, save returns an error result and afterwards neither the temporary
\* file nor a file under the final path exists.
C23_Step ==
  \A w \in Workers :
    AttemptFailed(w) =>
      /\ tempPath(finalPath(held[w])) \notin DOMAIN disk'
      /\ finalPath(held[w]) \notin DOMAIN disk'

C23_FailedSaveLeavesNothing == [][C23_Step]_vars

\* the identifiers of the jobs in the queue, in a worker's hands or in the DLQ
PendingIds ==
  { queue[i].id : i \in 1..Len(queue) }
    \cup { held[w].id : w \in { x \in Workers : pc[x] # "waiting" /\ pc[x] # "stopped" } }
    \cup { dlq[i].job.id : i \in 1..Len(dlq) }

\* the step ends the job of worker w with success
JobSucceeds(w) ==
  /\ InSave(w)
  /\ ~InSave(w)'
  /\ pc'[w] # "backoff"
  /\ dlq' = dlq

\* C24: over all retry attempts of a job at most one file is created under a
\* final name, and exactly one when the job ends successfully. A file under a
\* final name is created only by the attempt that ends the job with success:
\* an attempt that fails creates none, the job of a file that exists is no
\* longer queued, in a worker's hands or dead-lettered (so no later attempt
\* creates another), and the step that ends a job with success leaves its
\* file in the directory.
C24_OneFilePerJob ==
  /\ \A e \in FinalEntries(disk) : e.path.shortId \notin PendingIds
  /\ \A e1, e2 \in FinalEntries(disk) : e1.path.shortId = e2.path.shortId => e1 = e2

C24_Step ==
  \A w \in Workers :
    /\ AttemptFailed(w) => FinalEntries(disk') = FinalEntries(disk)
    /\ JobSucceeds(w) =>
         /\ finalPath(held[w]) \notin DOMAIN disk
         /\ FinalEntries(disk') = FinalEntries(disk) \cup {finalPath(held[w])}
    /\ (~AttemptFailed(w) /\ ~JobSucceeds(w)) =>
         (finalPath(held[w]) \in DOMAIN disk' <=> finalPath(held[w]) \in DOMAIN disk)

C24_AtMostOneFinalFile == []C24_OneFilePerJob /\ [][C24_Step]_vars

C24_Witness ==
  /\ lastOp.op = "saveVideo"
  /\ lastOp.ret >= 2
  /\ \E e \in FinalEntries(disk) : e.path.shortId = lastOp.arg
  /\ lastOp.arg \notin PendingIds

\* C25: after every mutating registry operation (register, updatePath,
\* remove, clear, the eviction in isDuplicate, validateAndCleanup) the
\* persisted table equals the in-memory table.
C25_PersistedEqualsMemory == persisted = registry

\* the entry of hash h references a file that is not in the upload directory
Stale(reg, fs, h) ==
  h \in DOMAIN reg /\ reg[h].path # Pending /\ reg[h].path \notin fs

\* the step is a call of isDuplicate (lastOp records its result and hash)
IsDuplicateStep == lastOp' # lastOp /\ lastOp'.op = "isDuplicate"

\* C26: isDuplicate(H) returns true exactly when H has an entry that is not
\* stale. When the file referenced by the entry of H no longer exists, the
\* call removes that entry and returns false, after which H is no longer a
\* duplicate (an upload of H passes the duplicate check); in every other case
\* the registry is unchanged. The entries of the other hashes are never
\* touched.
C26_Step ==
  IsDuplicateStep =>
    LET H == lastOp'.arg IN
    /\ lastOp'.ret = "true" <=> (H \in DOMAIN registry /\ ~Stale(registry, files, H))
    /\ Stale(registry, files, H) =>
         /\ lastOp'.ret = "false"
         /\ H \notin DOMAIN registry'
         /\ ~isDuplicate(registry', files', H).ret
    /\ ~Stale(registry, files, H) => registry' = registry
    /\ \A x \in RegistryHashes \ {H} :
         /\ x \in DOMAIN registry' <=> x \in DOMAIN registry
         /\ x \in DOMAIN registry => registry'[x] = registry[x]

C26_IsDuplicate == [][C26_Step]_vars

C26_Witness ==
  /\ lastOp.op = "isDuplicate"
  /\ lastOp.ret = "false"
  /\ lastOp.arg \notin DOMAIN registry
  /\ \E x \in RegistryHashes \ {lastOp.arg} : Stale(registry, files, x)
  /\ persisted = registry
  /\ files # {}

\* the attempts the producer made so far, oldest first
Attempts == producer.log

\* the stream of attempt a carried the whole file from its first chunk, then
\* the closing chunk
WholeFile(a) ==
  /\ Len(a.msgs) = Len(chunksOf(a.file)) + 1
  /\ \A k \in 1..Len(a.msgs) :
       /\ a.msgs[k].chunk_number = k
       /\ a.msgs[k].is_last = (k = Len(a.msgs))
       /\ a.msgs[k].data = IF k = Len(a.msgs) THEN <<>> ELSE chunksOf(a.file)[k]

\* C27: a queue_full answer makes the producer retry the entire upload of
\* that file (a new stream from the first chunk) after an exponential backoff
\* delay, with at most 3 attempts in total and delays of 1000ms then 2000ms;
\* after the third queue_full answer it gives up on the file and moves on to
\* the next one.
C27_Attempts ==
  /\ \A i \in 1..Len(Attempts) : Attempts[i].attempt <= 3
  /\ \A i \in 1..(Len(Attempts) - 1) :
       Attempts[i].outcome = "queue_full" =>
         /\ WholeFile(Attempts[i])
         /\ IF Attempts[i].attempt < 3
            THEN /\ Attempts[i + 1].file = Attempts[i].file
                 /\ Attempts[i + 1].attempt = Attempts[i].attempt + 1
                 /\ Attempts[i + 1].outcome \notin {"open", "read_error"}
                      => WholeFile(Attempts[i + 1])
                 /\ Attempts[i + 1].msgs # <<>> => Attempts[i + 1].msgs[1].chunk_number = 1
            ELSE Attempts[i + 1].file = Attempts[i].file + 1
  /\ producer.pc = "sleeping" =>
       /\ Attempts[Len(Attempts)].outcome = "queue_full"
       /\ producer.attempt \in {1, 2}
       /\ producer.delay = IF producer.attempt = 1 THEN 1000 ELSE 2000

C27_Step ==
  /\ (producer.pc = "awaiting" /\ producer'.pc # "awaiting"
        /\ producer'.log[Len(producer'.log)].outcome = "queue_full")
       => IF producer.attempt < 3
          THEN producer'.pc = "sleeping"
          ELSE producer'.pc = "next" /\ producer'.file = producer.file
  /\ (producer.pc = "sleeping" /\ producer'.pc # "sleeping")
       => /\ producer'.pc = "open"
          /\ producer'.file = producer.file
          /\ producer'.attempt = producer.attempt + 1
          /\ producer'.log = producer.log

C27_QueueFullRetry == []C27_Attempts /\ [][C27_Step]_vars

C27_Witness ==
  /\ Len(Attempts) >= 4
  /\ \A i \in 1..3 :
       /\ Attempts[i].file = 1
       /\ Attempts[i].attempt = i
       /\ Attempts[i].outcome = "queue_full"
  /\ Attempts[4].file = 2
  /\ Attempts[4].attempt = 1

\* the outcomes of an attempt that are failures other than a full queue
TerminalFailures == {"hash_error", "read_error", "error", "integrity", "duplicate"}

\* C28: an upload that fails otherwise than with queue_full (transport or
\* file-read error, integrity or duplicate rejection) is not retried: the
\* attempt that follows it is the first one of the next file, and when the
\* producer is done every discovered file was attempted, whatever happened
\* to the files before it.
C28_Attempts ==
  /\ \A i \in 1..(Len(Attempts) - 1) :
       Attempts[i].outcome \in TerminalFailures =>
         /\ Attempts[i + 1].file = Attempts[i].file + 1
         /\ Attempts[i + 1].attempt <= 1
  /\ \A i, j \in 1..Len(Attempts) :
       (i < j /\ Attempts[i].outcome \in TerminalFailures) => Attempts[j].file # Attempts[i].file
  /\ \A f \in VideoFiles :
       (f < producer.file \/ producer.pc = "done") => \E i \in 1..Len(Attempts) : Attempts[i].file = f

C28_Step ==
  (/\ producer.pc \in {"streaming", "awaiting"}
   /\ producer'.log # producer.log
   /\ producer'.log[Len(producer'.log)].outcome \in TerminalFailures)
    => /\ producer'.pc = "next"
       /\ producer'.file = producer.file

C28_FailureSkipsFile == []C28_Attempts /\ [][C28_Step]_vars

C28_Witness ==
  /\ producer.pc = "done"
  /\ Len(Attempts) = NumFiles
  /\ Attempts[1].outcome = "error"
  /\ \A f \in VideoFiles : Attempts[f].file = f
  /\ \E i \in 1..Len(Attempts) : Attempts[i].outcome \in {"integrity", "duplicate", "read_error"}

\* C29: in every stream the producer opens, the first message sent is the
\* metadata message (filename, producer id, content hash) and every message
\* after it is a data chunk.
C29_MetadataFirst ==
  \A i \in 1..Len(Attempts) :
    Attempts[i].msgs # <<>> =>
      /\ Attempts[i].msgs[1].kind = "metadata"
      /\ Attempts[i].msgs[1].metadata.md5Hash = hashOf(Attempts[i].file)
      /\ \A k \in 2..Len(Attempts[i].msgs) : Attempts[i].msgs[k].kind = "data"

\* C30: a stream whose data chunks arrived without a metadata message is
\* handled as an error: the call still completes with a response, the
\* response is not a success and no job is accepted from the stream.
C30_Step(c) ==
  (/\ UploadEndStep(c)
   /\ up[c].filename = ""
   /\ \E i \in 1..Len(up[c].arrived) : up[c].arrived[i] # <<>>)
    => /\ up'[c].response # NoResponse
       /\ ~up'[c].response.success
       /\ nextId' = nextId
       /\ queue' = queue
       /\ held' = held

C30_DataWithoutMetadata == [][\A c \in Calls : C30_Step(c)]_vars

\* the attempt whose stream is open
Current == Attempts[Len(Attempts)]

\* C31: within one stream the chunk numbers sent are 1, 2, ... in this order
\* (also across pauses for backpressure), every data chunk has is_last =
\* false, and a stream whose file was read to its end closes with exactly one
\* marker: numbered n + 1 after the n data chunks, is_last = true, zero-length
\* payload, written last, before the send side is closed.
C31_Numbers ==
  /\ \A i \in 1..Len(Attempts) :
       /\ \A k \in 1..Len(Attempts[i].msgs) : Attempts[i].msgs[k].chunk_number = k
       /\ \A k \in 1..Len(Attempts[i].msgs) :
            Attempts[i].msgs[k].is_last =>
              /\ k = Len(Attempts[i].msgs)
              /\ k = Len(chunksOf(Attempts[i].file)) + 1
              /\ Attempts[i].msgs[k].data = <<>>
       /\ Attempts[i].outcome \notin {"open", "read_error", "hash_error"} =>
            /\ Attempts[i].msgs # <<>>
            /\ Attempts[i].msgs[Len(Attempts[i].msgs)].is_last
  /\ producer.pc = "awaiting" => Current.msgs[Len(Current.msgs)].is_last
  /\ (producer.pc = "streaming" /\ Current.msgs # <<>>)
       => ~Current.msgs[Len(Current.msgs)].is_last

C31_Step ==
  (producer.pc = "streaming" /\ producer'.pc = "streaming")
    => \/ producer'.log = producer.log
       \/ /\ Len(producer'.log) = Len(producer.log)
          /\ producer'.log[Len(producer.log)].msgs
               = Append(Current.msgs,
                        streamChunk(producer.file, chunksOf(producer.file)[Len(Current.msgs) + 1],
                                    Len(Current.msgs) + 1, FALSE))

C32_Paused ==
  /\ producer.pc = "streaming" => (producer.paused <=> ~producer.canWrite)
  /\ producer.pc = "awaiting" => WholeFile(Current)

C32_Step ==
  /\ (producer.pc = "streaming" /\ ~producer.canWrite)
       => /\ Len(producer'.log) = Len(producer.log)
          /\ producer'.log[Len(producer.log)].msgs = Current.msgs
  /\ (producer.pc = "streaming" /\ ~producer.canWrite /\ producer'.pc = "streaming"
        /\ producer'.canWrite)
       => ~producer'.paused

C32_AllSent ==
  (producer.pc = "streaming" /\ ~producer.canWrite)
    ~> \/ producer.pc = "awaiting" /\ WholeFile(Current)
       \/ Attempts # <<>> /\ Current.outcome = "read_error"

C32_Backpressure == []C32_Paused /\ [][C32_Step]_vars /\ C32_AllSent

\* the upload of the second file is paused after its last data chunk, the
\* closing marker still to come
C32_Witness ==
  /\ producer.pc = "streaming"
  /\ producer.file = 2
  /\ producer.paused
  /\ Len(Current.msgs) = 2

\* the responses of the end handler, by branch
Responses ==
  { Response(FALSE, "integrity", "", FALSE), Response(FALSE, "duplicate", "", FALSE),
    Response(FALSE, "queue_full", "", TRUE), Response(TRUE, "queued", "pending", FALSE),
    Response(FALSE, "error", "", FALSE) }

\* C33: an upload call whose inbound stream ends is answered with exactly one
\* response message, in every branch (integrity rejection, duplicate
\* rejection, queue full, acceptance, internal error): the call leaves the
\* open state with one of the five responses, which then stays as it is until
\* the call is opened again; queue_full = true only comes with success =
\* false, and a call whose stream fails is not answered.
C33_Answered ==
  \A c \in OneCall :
    /\ up[c].st = "done" <=> up[c].response \in Responses
    /\ up[c].st # "done" => up[c].response = NoResponse
    /\ up[c].response.queue_full => ~up[c].response.success

C33_Step ==
  \A c \in OneCall :
    /\ (up[c].st = "open" /\ up'[c].st # "open")
         => \/ up'[c].st = "done" /\ up'[c].response \in Responses
            \/ up'[c] = NoSession
    /\ (up[c].st = "done" /\ up'[c].st = "done") => up'[c].response = up[c].response
    /\ (up[c].st = "open" /\ up'[c].st = "done" /\ up'[c].response.message = "integrity")
         => hashMismatch(up[c].expectedHash, concat(up[c].chunks))
    /\ (up[c].st = "open" /\ up'[c].st = "done" /\ up'[c].response.message = "queue_full")
         => /\ queue' = queue
            /\ registry' = registry
    /\ (up[c].st = "open" /\ up'[c].st = "done" /\ up'[c].response.success)
         => \/ Len(queue') = Len(queue) + 1
            \/ Len(returned') = Len(returned) + 1

C33_OneResponse == []C33_Answered /\ [][C33_Step]_vars

\* the call was answered by the catch block
C33_Witness == \E c \in OneCall : up[c].st = "done" /\ up[c].response.message = "error"

\* the other four branches were taken as well
C33_Branches(m) == \E c \in OneCall : up[c].st = "done" /\ up[c].response.message = m
C33_SeenIntegrity == C33_Branches("integrity")
C33_SeenDuplicate == C33_Branches("duplicate")
C33_SeenQueueFull == C33_Branches("queue_full")
C33_SeenQueued == C33_Branches("queued")

\* C34: a DELETE request to /api/dlq/clear removes every entry from the DLQ
\* and reports the number of cleared jobs, for any DLQ contents.
C34_Step ==
  (lastOp' # lastOp /\ lastOp'.op = "DELETE /api/dlq/clear")
    => /\ dlq' = <<>>
       /\ lastOp'.arg = Len(dlq)

C34_ClearEmptiesDlq == [][C34_Step]_vars

\* the request was answered 404 and a failed job is still in the DLQ
C34_Seen ==
  /\ lastOp.op = "DELETE /api/dlq/clear"
  /\ lastOp.ret = "404"
  /\ dlq # <<>>

\* the jobs that are in the bounded queue or owned by a worker
InFlight ==
  { queue[i] : i \in 1..Len(queue) }
    \cup { held[w] : w \in { v \in Workers : pc[v] \in {"resolved", "saving", "backoff"}
                                              /\ held[v] # Null } }

\* C35: for every accepted upload with declared hash H the placeholder of H
\* is registered before any worker's updatePath(H) for that job, also when a
\* suspended worker receives the job directly from enqueue: every job in the
\* queue or owned by a worker has its placeholder in the registry, the save of
\* the job replaces the placeholder by the final path, and a final path is
\* never replaced by a placeholder afterwards.
C35_Registered ==
  \A job \in InFlight :
    job.md5Hash # NoHash
      => /\ job.md5Hash \in DOMAIN registry
         /\ registry[job.md5Hash].path = Pending

C35_Step ==
  /\ \A w \in Workers :
       (/\ pc[w] = "saving"
        /\ generateUniqueFilename(held[w].id, held[w].filename) \in files' \ files
        /\ held[w].md5Hash # NoHash)
         => /\ held[w].md5Hash \in DOMAIN registry'
            /\ registry'[held[w].md5Hash].path
                 = generateUniqueFilename(held[w].id, held[w].filename)
  /\ \A h \in DOMAIN registry :
       registry[h].path # Pending
         => /\ h \in DOMAIN registry'
            /\ registry'[h].path = registry[h].path

C35_PlaceholderFirst == []C35_Registered /\ [][C35_Step]_vars

\* the first job, handed by enqueue to a worker suspended in dequeueAsync, was
\* saved and its entry carries the final path
C35_Witness ==
  /\ returned # <<>>
  /\ returned[1] = 1
  /\ \E h \in DOMAIN registry :
       /\ registry[h].path # Pending
       /\ registry[h].path = generateUniqueFilename(1, registry[h].filename)

\* C36: a registry entry whose path is the placeholder exists only while its
\* job is in the bounded queue, owned by a worker, or held in the DLQ; once
\* the job has left all three without being persisted, isDuplicate returns
\* false for the hash and a new upload of the same content is accepted.
C36_PlaceholderHasJob ==
  \A h \in DOMAIN registry :
    registry[h].path = Pending
      => \E job \in InFlight \cup DlqJobs : job.md5Hash = h

C36_Step ==
  \A c \in OneCall :
    (/\ up[c].st = "open"
     /\ up'[c].st = "done"
     /\ up[c].expectedHash # NoHash
     /\ ~hashMismatch(up[c].expectedHash, concat(up[c].chunks))
     /\ ~\E job \in InFlight \cup DlqJobs : job.md5Hash = up[c].expectedHash
     /\ up[c].expectedHash \in DOMAIN registry => registry[up[c].expectedHash].path = Pending)
      => up'[c].response.message # "duplicate"

C36_PlaceholderReleased == []C36_PlaceholderHasJob /\ [][C36_Step]_vars

\* the placeholder of a job that was deleted from the DLQ made a new upload
\* of the same content a duplicate
C36_Seen ==
  /\ dlq = <<>>
  /\ InFlight = {}
  /\ \E c \in OneCall : up[c].st = "done" /\ up[c].response.message = "duplicate"
  /\ \E h \in DOMAIN registry : registry[h].path = Pending

\* C37: the producer counts an upload as succeeded only when the server's
\* response has success = true; a response with success = false and
\* queue_full = false (integrity or duplicate rejection) is never reported as
\* a successful upload.
C37_SuccessOnlyIfAccepted ==
  \A i \in 1..Len(Attempts) : Attempts[i].uploadSuccess => Attempts[i].outcome = "queued"

\* an upload rejected by the integrity check was counted as succeeded
C37_Seen ==
  \E i \in 1..Len(Attempts) :
    Attempts[i].uploadSuccess /\ Attempts[i].outcome = "integrity"

\* worker w owns a job: processJobWithRetry was called for it or is about to be
Owns(w) == pc[w] \in {"resolved", "saving", "backoff"} /\ held[w] # Null

\* C38: for every configured value of the retry ceiling (DLQ_MAX_RETRIES),
\* including 0, negative and non-numeric values, processJobWithRetry makes at
\* least one persist attempt for a dequeued job and never returns normally
\* with the job neither saved nor recorded in the DLQ.
C38_Step ==
  \A w \in Workers :
    /\ (pc[w] = "resolved" /\ held[w] # Null) => pc'[w] = "saving"
    /\ (Owns(w) /\ ~Owns(w)')
         => \/ generateUniqueFilename(held[w].id, held[w].filename) \in files'
            \/ held[w] \in { dlq'[i].job : i \in 1..Len(dlq') }

C38_AlwaysAttempts == [][C38_Step]_vars

\* with a ceiling below 1 a dequeued job was dropped: the worker is back in
\* dequeueAsync, nothing was saved and the DLQ is empty
C38_Seen ==
  /\ ~le(1, maxRetries)
  /\ returned # <<>>
  /\ \A w \in Workers : pc[w] = "waiting"
  /\ files = {}
  /\ dlq = <<>>

\* C39: in every reachable state of the queue, suspended dequeueAsync callers
\* and queued jobs never coexist: if at least one caller is suspended the
\* queue is empty, and no caller is suspended after shutdown.
C39_WaitersOrJobs ==
  /\ waiters # <<>> => queue = <<>>
  /\ isShuttingDown => waiters = <<>>
  /\ \A w \in Workers : pc[w] = "waiting" <=> \E i \in 1..Len(waiters) : waiters[i] = w

\* an enqueue found a caller suspended and handed the job over: another
\* caller is still suspended, the queue is empty, a job was returned
C39_Witness ==
  /\ waiters # <<>>
  /\ queue = <<>>
  /\ returned # <<>>
  /\ lastOp.op = "enqueue"
  /\ lastOp.ret = "true"

\* C40: the outcome of processJobWithRetry depends only on the outcomes of
\* the file persister, for every filename: every attempt calls the persister,
\* and a job is added to the DLQ only by the failure of a persister call, the
\* MAX_RETRIES-th for the job.
C40_Step ==
  \A w \in Workers :
    /\ (pc[w] = "saving" /\ (pc'[w] # "saving" \/ attempt'[w] # attempt[w]))
         => /\ lastOp'.op = "saveVideo"
            /\ lastOp'.who = w
            /\ lastOp'.arg = held[w].id
    /\ (pc[w] = "saving" /\ Len(dlq') = Len(dlq) + 1 /\ dlq'[Len(dlq')].job = held[w])
         => /\ lastOp'.op = "saveVideo"
            /\ lastOp'.ret = "false"
            /\ attempt[w] = MAX_RETRIES

C40_PersisterDecides == [][C40_Step]_vars

\* a job named fail_me.mp4 is in the DLQ and saveVideo was never called for it
C40_Seen ==
  /\ \E i \in 1..Len(dlq) : dlq[i].job.filename = "fail_me.mp4"
  /\ lastOp.op = "simulatedFailure"

====
